---------------------------- MODULE Spec2Model ----------------------------
(***************************************************************************)
(* Model of colour/models/din99.py: the Lab_to_DIN99 / DIN99_to_Lab pair.  *)
(*                                                                         *)
(* Numbers.  The code computes in IEEE-754 doubles.  The model computes in *)
(* decimal fixed point with Scale = 10^6 units per 1.0 (so 0.0158 is the   *)
(* integer 15800), extended with the IEEE special values NaN, +inf and     *)
(* -inf.  Every arithmetic function the code calls (log, exp, cos, sin,    *)
(* arctan2, sqrt, *, /) is computed numerically, by range reduction and a  *)
(* power series, and rounds its result to the nearest unit, as the IEEE    *)
(* operations round to the nearest double.  None of them is defined as the *)
(* inverse of another one.  Finite magnitudes stay below 2^31 / Scale      *)
(* (about 2147); the sign of a zero is not modelled (-0.0 = 0.0).          *)
(***************************************************************************)
EXTENDS Integers, Sequences, FiniteSets, TLC

Scale == 10^6
\* MulF splits its operands in base Base, Base * Base = Scale.
Base == 10^3

----------------------------------------------------------------------------
(* Fixed-point arithmetic on finite values (integers, in units of 1/Scale). *)

Abs(n) == IF n < 0 THEN -n ELSE n
Sgn(n) == IF n < 0 THEN -1 ELSE 1

\* n / d for an integer d > 0, rounded to nearest, half away from zero.
DivI(n, d) == Sgn(n) * ((2 * Abs(n) + d) \div (2 * d))

\* a * b, rounded to the nearest unit.
MulF(a, b) ==
    LET x == Abs(a)
        y == Abs(b)
        xh == x \div Base
        xl == x % Base
        yh == y \div Base
        yl == y % Base
    IN  Sgn(a) * Sgn(b) *
          ( xh * yh + (xh * yl) \div Base + (xl * yh) \div Base
            + (((xh * yl) % Base) + ((xl * yh) % Base) + ((xl * yl) \div Base)
               + (Base \div 2)) \div Base )

\* Long division: six more decimal digits of q, r the running remainder.
RECURSIVE DivDigits(_, _, _, _)
DivDigits(q, r, y, n) ==
    IF n = 0
    THEN IF 2 * r >= y THEN q + 1 ELSE q
    ELSE DivDigits(q * 10 + ((r * 10) \div y), (r * 10) % y, y, n - 1)

\* a / b for b # 0, rounded to the nearest unit.
DivF(a, b) ==
    LET x == Abs(a)
        y == Abs(b)
    IN  Sgn(a) * Sgn(b) * DivDigits(x \div y, x % y, y, 6)

\* Integer square root (Newton's iteration from above).
RECURSIVE IsqrtIter(_, _)
IsqrtIter(x, g) ==
    LET h == (g + (x \div g)) \div 2
    IN  IF h >= g THEN g ELSE IsqrtIter(x, h)

Isqrt(x) == IF x < 2 THEN x ELSE IsqrtIter(x, x)

\* The largest decimal digit d with (20 r + d) d <= rem.
RECURSIVE SqrtDigit(_, _, _)
SqrtDigit(r, rem, d) ==
    IF (20 * r + d) * d <= rem THEN d ELSE SqrtDigit(r, rem, d - 1)

\* Digit-by-digit square root: n more decimal digits of the root r.
RECURSIVE SqrtDigits(_, _, _)
SqrtDigits(r, rem, n) ==
    IF n = 0
    THEN r
    ELSE LET d == SqrtDigit(r, rem * 100, 9)
         IN  SqrtDigits(10 * r + d, rem * 100 - (20 * r + d) * d, n - 1)

\* sqrt(x) for x >= 0: the integer root of x * Scale.
SqrtF(x) ==
    LET r == Isqrt(x)
    IN  SqrtDigits(r, x - r * r, 3)

\* ln 2 and pi in units of 1/Scale.
LN2 == 693147
PI == 3141593
HALFPI == 1570796

\* Halve m until it is below 2, counting the halvings in k.
RECURSIVE LnReduceDown(_, _)
LnReduceDown(m, k) ==
    IF m >= 2 * Scale THEN LnReduceDown((m + 1) \div 2, k + 1) ELSE <<m, k>>

\* Double m until it is at least 1, counting the doublings in k.
RECURSIVE LnReduceUp(_, _)
LnReduceUp(m, k) ==
    IF m < Scale THEN LnReduceUp(2 * m, k - 1) ELSE <<m, k>>

\* z + z^3/3 + z^5/5 + ... + z^13/13, p the last odd power of z, n its exponent.
RECURSIVE AtanhSeries(_, _, _, _)
AtanhSeries(p, z2, n, acc) ==
    IF n > 13
    THEN acc
    ELSE LET q == MulF(p, z2)
         IN  AtanhSeries(q, z2, n + 2, acc + DivI(q, n))

\* ln(x) for x > 0: x = m * 2^k with 1 <= m < 2, ln m = 2 atanh((m-1)/(m+1)).
LnF(x) ==
    LET mk == IF x >= Scale THEN LnReduceDown(x, 0) ELSE LnReduceUp(x, 0)
        m == mk[1]
        z == DivF(m - Scale, m + Scale)
    IN  2 * AtanhSeries(z, MulF(z, z), 3, z) + mk[2] * LN2

\* 1 + r + r^2/2! + ... + r^10/10!, t the last term, n the next index.
RECURSIVE ExpSeries(_, _, _, _)
ExpSeries(t, r, n, acc) ==
    IF n > 10
    THEN acc
    ELSE LET u == DivI(MulF(t, r), n)
         IN  ExpSeries(u, r, n + 1, acc + u)

\* exp(x): x = k ln 2 + r with |r| <= ln 2 / 2, exp(x) = 2^k exp(r).
ExpF(x) ==
    LET k == (2 * x + LN2) \div (2 * LN2)
        s == ExpSeries(Scale, x - k * LN2, 1, Scale)
    IN  IF k >= 0 THEN s * (2 ^ k) ELSE DivI(s, 2 ^ (-k))

\* Alternating series t - t x^2/((n-1) n) + ..., up to the term of index 13.
RECURSIVE TrigSeries(_, _, _, _)
TrigSeries(t, x2, n, acc) ==
    IF n > 13
    THEN acc
    ELSE LET u == -DivI(MulF(t, x2), (n - 1) * n)
         IN  TrigSeries(u, x2, n + 2, acc + u)

SinSeries(x) == TrigSeries(x, MulF(x, x), 3, x)
CosSeries(x) == TrigSeries(Scale, MulF(x, x), 2, Scale)

\* sin and cos for -pi <= x <= pi, reduced to [-pi/2, pi/2].
SinF(x) ==
    IF x > HALFPI THEN SinSeries(PI - x)
    ELSE IF x < -HALFPI THEN SinSeries(-PI - x)
    ELSE SinSeries(x)

CosF(x) ==
    IF x > HALFPI THEN -CosSeries(PI - x)
    ELSE IF x < -HALFPI THEN -CosSeries(-PI - x)
    ELSE CosSeries(x)

\* u - u^3/3 + u^5/5 - ... up to u^15/15; sg is the sign of the next term.
RECURSIVE AtanSeries(_, _, _, _, _)
AtanSeries(p, u2, n, sg, acc) ==
    IF n > 15
    THEN acc
    ELSE LET q == MulF(p, u2)
         IN  AtanSeries(q, u2, n + 2, -sg, acc + sg * DivI(q, n))

\* atan(t) for 0 <= t <= 1: atan t = 2 atan(t / (1 + sqrt(1 + t^2))).
AtanF(t) ==
    LET u == DivF(t, Scale + SqrtF(Scale + MulF(t, t)))
    IN  2 * AtanSeries(u, MulF(u, u), 3, -1, u)

\* atan2(y, x) in (-pi, pi]; atan2(0, 0) = 0.
Atan2F(y, x) ==
    IF x = 0 /\ y = 0
    THEN 0
    ELSE LET ax == Abs(x)
             ay == Abs(y)
             th == IF ay <= ax THEN AtanF(DivF(ay, ax))
                   ELSE HALFPI - AtanF(DivF(ax, ay))
             q == IF x < 0 THEN PI - th ELSE th
         IN  IF y < 0 THEN -q ELSE q

----------------------------------------------------------------------------
(* IEEE values: a finite number, NaN, +inf or -inf.                         *)

Fin(n) == [t |-> "fin", v |-> n]
NaN == [t |-> "nan", v |-> 0]
Inf(s) == [t |-> "inf", v |-> s]

IsFin(x) == x.t = "fin"
IsNaN(x) == x.t = "nan"
IsInf(x) == x.t = "inf"
IsZero(x) == IsFin(x) /\ x.v = 0

Neg(x) == [t |-> x.t, v |-> -x.v]

\* x + y: inf + (-inf) is NaN.
Add(x, y) ==
    IF IsNaN(x) \/ IsNaN(y) THEN NaN
    ELSE IF IsInf(x) /\ IsInf(y) THEN (IF x.v = y.v THEN x ELSE NaN)
    ELSE IF IsInf(x) THEN x
    ELSE IF IsInf(y) THEN y
    ELSE Fin(x.v + y.v)

Sub(x, y) == Add(x, Neg(y))

\* x * y: inf * 0 is NaN.
Mul(x, y) ==
    IF IsNaN(x) \/ IsNaN(y) THEN NaN
    ELSE IF IsInf(x) \/ IsInf(y)
         THEN (IF IsZero(x) \/ IsZero(y) THEN NaN ELSE Inf(Sgn(x.v) * Sgn(y.v)))
    ELSE Fin(MulF(x.v, y.v))

\* x / y as numpy divides: no exception; x / 0 is +-inf, 0 / 0 and inf / inf
\* are NaN.
Div(x, y) ==
    IF IsNaN(x) \/ IsNaN(y) THEN NaN
    ELSE IF IsInf(x) THEN (IF IsInf(y) THEN NaN ELSE Inf(Sgn(x.v) * Sgn(y.v)))
    ELSE IF IsInf(y) THEN Fin(0)
    ELSE IF y.v = 0 THEN (IF x.v = 0 THEN NaN ELSE Inf(Sgn(x.v)))
    ELSE Fin(DivF(x.v, y.v))

\* np.log: NaN below 0, -inf at 0.
Log(x) ==
    IF IsNaN(x) THEN NaN
    ELSE IF IsInf(x) THEN (IF x.v > 0 THEN x ELSE NaN)
    ELSE IF x.v < 0 THEN NaN
    ELSE IF x.v = 0 THEN Inf(-1)
    ELSE Fin(LnF(x.v))

\* np.exp.
Exp(x) ==
    IF IsNaN(x) THEN NaN
    ELSE IF IsInf(x) THEN (IF x.v > 0 THEN x ELSE Fin(0))
    ELSE Fin(ExpF(x.v))

\* np.sqrt, and x ** 0.5: NaN below 0.
Sqrt(x) ==
    IF IsNaN(x) THEN NaN
    ELSE IF IsInf(x) THEN (IF x.v > 0 THEN x ELSE NaN)
    ELSE IF x.v < 0 THEN NaN
    ELSE Fin(SqrtF(x.v))

\* x ** 2.
Square(x) == Mul(x, x)

\* np.cos and np.sin: NaN at an infinity.
Cos(x) == IF IsFin(x) THEN Fin(CosF(x.v)) ELSE NaN
Sin(x) == IF IsFin(x) THEN Fin(SinF(x.v)) ELSE NaN

\* np.arctan2(y, x).
Arctan2(y, x) ==
    IF IsNaN(x) \/ IsNaN(y) THEN NaN
    ELSE IF IsInf(y)
         THEN (IF IsInf(x)
               THEN Fin(y.v * (IF x.v > 0 THEN HALFPI \div 2 ELSE PI - HALFPI \div 2))
               ELSE Fin(y.v * HALFPI))
    ELSE IF IsInf(x)
         THEN (IF x.v > 0 THEN Fin(0) ELSE Fin(Sgn(y.v) * PI))
    ELSE Fin(Atan2F(y.v, x.v))

\* np.radians(d) for an integer number of degrees d.
Radians(d) == Fin(DivI(d * PI, 180))

----------------------------------------------------------------------------
(* Arrays: a shape (the lengths of the axes) and the elements in row-major *)
(* order.  A 0-d array (a numpy scalar) has shape << >> and one element.   *)

Arr(shape, data) == [shape |-> shape, data |-> data]

\* The local variable is not bound yet.
Unbound == Arr(<< >>, << >>)

\* The axes before the last one.
Leading(shape) == SubSeq(shape, 1, Len(shape) - 1)

\* The length of the last axis.
LastAxis(A) == A.shape[Len(A.shape)]

\* An elementwise operation on one array, and on two arrays of one shape.
Map1(Op(_), A) == Arr(A.shape, [i \in 1..Len(A.data) |-> Op(A.data[i])])
Map2(Op(_, _), A, B) ==
    Arr(A.shape, [i \in 1..Len(A.data) |-> Op(A.data[i], B.data[i])])

\* tsplit: the array a[..., x] for each index x of the last axis.
tsplit(A) ==
    LET n == LastAxis(A)
    IN  [x \in 1..n |->
           Arr(Leading(A.shape),
               [i \in 1..(Len(A.data) \div n) |-> A.data[(i - 1) * n + x]])]

\* tstack: the arrays of a list stacked along a new last axis.
tstack(chs) ==
    LET n == Len(chs)
        m == Len(chs[1].data)
    IN  Arr(chs[1].shape \o <<n>>,
            [j \in 1..(m * n) |-> chs[((j - 1) % n) + 1].data[((j - 1) \div n) + 1]])

----------------------------------------------------------------------------
(* The calibration constants of din99.py, in units of 1/Scale.             *)

\* 0.045 (chroma compression), 0.0158 and 105.509 (lightness compression),
\* 0.7 (scale of the rotated b axis), and the rotation angle in degrees.
C_0_045 == 45000
C_0_0158 == 15800
C_105_509 == 105509000
C_0_7 == 700000
DEG_16 == 16

One == Fin(Scale)

----------------------------------------------------------------------------
(* Lab_to_DIN99, statement by statement.  L, a, b, e, f, G, h_ef, C_99 are *)
(* arrays of one shape; k_E and k_CH are scalars.                          *)

\* cos_16 = np.cos(np.radians(16)); sin_16 = np.sin(np.radians(16))
cos_16 == Cos(Radians(DEG_16))
sin_16 == Sin(Radians(DEG_16))

\* Fwd_e with the factor b of the second term dropped.
Fwd_e_without_b(a, b) ==
    Map2(LAMBDA x, y : Add(Mul(cos_16, x), sin_16), a, b)

\* e = cos_16 * a + sin_16 * b
Fwd_e(a, b) ==
    Map2(LAMBDA x, y : Add(Mul(cos_16, x), Mul(sin_16, y)), a, b)

\* Fwd_f without the scale 0.7.
Fwd_f_unscaled(a, b) ==
    Map2(LAMBDA x, y : Add(Mul(Neg(sin_16), x), Mul(cos_16, y)), a, b)

\* f = 0.7 * (-sin_16 * a + cos_16 * b)
Fwd_f(a, b) ==
    Map2(LAMBDA x, y :
           Mul(Fin(C_0_7), Add(Mul(Neg(sin_16), x), Mul(cos_16, y))), a, b)

RECURSIVE SumOfSquares(_, _)
SumOfSquares(A, n) ==
    IF n = 0 THEN Fin(0) ELSE Add(SumOfSquares(A, n - 1), Square(A.data[n]))

\* Fwd_G as the norm of the whole arrays e and f (np.linalg.norm([e, f])),
\* not of each pair of elements.
Fwd_G_norm_of_arrays(e, f) ==
    Map2(LAMBDA x, y : Sqrt(Add(SumOfSquares(e, Len(e.data)),
                                SumOfSquares(f, Len(f.data)))), e, f)

\* G = (e ** 2 + f ** 2) ** 0.5
Fwd_G(e, f) == Map2(LAMBDA x, y : Sqrt(Add(Square(x), Square(y))), e, f)

\* h_ef = np.arctan2(f, e)
Fwd_h_ef(e, f) == Map2(LAMBDA x, y : Arctan2(y, x), e, f)

\* Fwd_C_99 dividing by 0.045 only, and multiplying by the factors.
Fwd_C_99_multiplied(G, k_E, k_CH) ==
    Map1(LAMBDA g : Mul(Mul(Div(Log(Add(One, Mul(Fin(C_0_045), g))), Fin(C_0_045)),
                            k_CH), k_E), G)

\* C_99 = (np.log(1 + 0.045 * G)) / (0.045 * k_CH * k_E)
Fwd_C_99(G, k_E, k_CH) ==
    Map1(LAMBDA g : Div(Log(Add(One, Mul(Fin(C_0_045), g))),
                        Mul(Mul(Fin(C_0_045), k_CH), k_E)), G)

\* a_99 = C_99 * np.cos(h_ef)
Fwd_a_99(C_99, h_ef) == Map2(LAMBDA c, h : Mul(c, Cos(h)), C_99, h_ef)

\* Fwd_b_99 with the sign of the sine reversed.
Fwd_b_99_negated(C_99, h_ef) == Map2(LAMBDA c, h : Neg(Mul(c, Sin(h))), C_99, h_ef)

\* b_99 = C_99 * np.sin(h_ef)
Fwd_b_99(C_99, h_ef) == Map2(LAMBDA c, h : Mul(c, Sin(h)), C_99, h_ef)

\* Fwd_L_99 with the lightness clamped at 0 from below.
Fwd_L_99_clamped(L, k_E) ==
    Map1(LAMBDA x :
           Mul(Mul(Fin(C_105_509),
                   Log(Add(One, Mul(Fin(C_0_0158),
                                    IF IsFin(x) /\ x.v < 0 THEN Fin(0) ELSE x)))),
               k_E), L)

\* Fwd_L_99 dividing by k_E where the code multiplies.
Fwd_L_99_divided(L, k_E) ==
    Map1(LAMBDA x : Div(Mul(Fin(C_105_509), Log(Add(One, Mul(Fin(C_0_0158), x)))),
                        k_E), L)

\* L_99 = 105.509 * (np.log(1 + 0.0158 * L)) * k_E
Fwd_L_99(L, k_E) ==
    Map1(LAMBDA x : Mul(Mul(Fin(C_105_509), Log(Add(One, Mul(Fin(C_0_0158), x)))),
                        k_E), L)

\* Fwd_return stacking along a new first axis (np.array([L_99, a_99, b_99])).
Fwd_return_first_axis(L_99, a_99, b_99) ==
    Arr(<<3>> \o L_99.shape, L_99.data \o a_99.data \o b_99.data)

\* return tstack([L_99, a_99, b_99])
Fwd_return(L_99, a_99, b_99) == tstack(<<L_99, a_99, b_99>>)

----------------------------------------------------------------------------
(* DIN99_to_Lab, statement by statement.                                   *)

\* h_99 = np.arctan2(b_99, a_99)
Inv_h_99(a_99, b_99) == Map2(LAMBDA x, y : Arctan2(y, x), a_99, b_99)

\* C_99 = np.sqrt(a_99 ** 2 + b_99 ** 2)
Inv_C_99(a_99, b_99) ==
    Map2(LAMBDA x, y : Sqrt(Add(Square(x), Square(y))), a_99, b_99)

\* Inv_G with the factor k_E of the exponent dropped.
Inv_G_without_k_E(C_99, k_E, k_CH) ==
    Map1(LAMBDA c : Div(Sub(Exp(Mul(Mul(Fin(C_0_045), c), k_CH)), One),
                        Fin(C_0_045)), C_99)

\* G = (np.exp(0.045 * C_99 * k_CH * k_E) - 1) / 0.045
Inv_G(C_99, k_E, k_CH) ==
    Map1(LAMBDA c : Div(Sub(Exp(Mul(Mul(Mul(Fin(C_0_045), c), k_CH), k_E)), One),
                        Fin(C_0_045)), C_99)

\* e = G * np.cos(h_99)
Inv_e(G, h_99) == Map2(LAMBDA g, h : Mul(g, Cos(h)), G, h_99)

\* f = G * np.sin(h_99)
Inv_f(G, h_99) == Map2(LAMBDA g, h : Mul(g, Sin(h)), G, h_99)

\* a = e * cos_16 - (f / 0.7) * sin_16
Inv_a(e, f) ==
    Map2(LAMBDA x, y : Sub(Mul(x, cos_16), Mul(Div(y, Fin(C_0_7)), sin_16)), e, f)

\* b = e * sin_16 + (f / 0.7) * cos_16
Inv_b(e, f) ==
    Map2(LAMBDA x, y : Add(Mul(x, sin_16), Mul(Div(y, Fin(C_0_7)), cos_16)), e, f)

\* Inv_L without the subtraction of 1.
Inv_L_without_minus_1(L_99, k_E) ==
    Map1(LAMBDA x : Div(Exp(Div(Mul(x, k_E), Fin(C_105_509))), Fin(C_0_0158)), L_99)

\* L = (np.exp(L_99 * k_E / 105.509) - 1) / 0.0158
Inv_L(L_99, k_E) ==
    Map1(LAMBDA x : Div(Sub(Exp(Div(Mul(x, k_E), Fin(C_105_509))), One),
                        Fin(C_0_0158)), L_99)

\* return tstack([L, a, b])
Inv_return(L, a, b) == tstack(<<L, a, b>>)

----------------------------------------------------------------------------
(* The two functions as a whole, for an array whose last axis has length 3. *)

Lab_to_DIN99(Lab, k_E, k_CH) ==
    LET s == tsplit(Lab)
        e == Fwd_e(s[2], s[3])
        f == Fwd_f(s[2], s[3])
        C_99 == Fwd_C_99(Fwd_G(e, f), k_E, k_CH)
        h_ef == Fwd_h_ef(e, f)
    IN  Fwd_return(Fwd_L_99(s[1], k_E), Fwd_a_99(C_99, h_ef), Fwd_b_99(C_99, h_ef))

DIN99_to_Lab(Lab_99, k_E, k_CH) ==
    LET s == tsplit(Lab_99)
        h_99 == Inv_h_99(s[2], s[3])
        G == Inv_G(Inv_C_99(s[2], s[3]), k_E, k_CH)
        e == Inv_e(G, h_99)
        f == Inv_f(G, h_99)
    IN  Inv_return(Inv_L(s[1], k_E), Inv_a(e, f), Inv_b(e, f))

----------------------------------------------------------------------------
(* colour/plotting/common.py: the definitions that configure, draw on and  *)
(* display the current matplotlib figure.  The figure and its axes are the *)
(* state of matplotlib.pyplot; lengths are integers in units of 1/Unit.    *)

\* Python's None, and a value that is not None.
None == << >>
Some(x) == <<x>>

\* A value is true in a condition: not None and not the empty string.
Truthy(x) == x # None /\ x # Some("")

\* The text offset 0.05 is one unit, the length 1 is Unit units.
Unit == 20

\* x * 0.25
Quarter(x) == x \div 4

\* **kwargs without a keyword.
NoKwargs == [k \in {} |-> None]

\* settings = Structure(**defaults); settings.update(kwargs)
Update(defaults, kwargs) ==
    [k \in DOMAIN defaults \cup DOMAIN kwargs |->
       IF k \in DOMAIN kwargs THEN kwargs[k] ELSE defaults[k]]

\* A dictionary without the keys ks.
Without(d, ks) == [k \in DOMAIN d \ ks |-> d[k]]

\* matplotlib.pyplot.gcf() and gca() before anything was set or drawn: limits
\* and ticks that were never set are None (matplotlib chooses them).
NewFigure ==
    [size |-> None, patch_visible |-> TRUE, tight_layout |-> FALSE,
     events |-> << >>]

NewAxes ==
    [xlim |-> None, ylim |-> None, title |-> None, x_label |-> None,
     y_label |-> None, legend |-> None, x_minor_locator |-> None,
     y_minor_locator |-> None, x_ticks |-> None, y_ticks |-> None,
     grid |-> None, lines |-> << >>, aspect |-> None, axis_on |-> TRUE,
     facecolor |-> None, fills |-> << >>, texts |-> << >>]

\* (18, 18 * (sqrt(5) - 1) / 2), in thousandths.
DEFAULT_FIGURE_SIZE == <<18000, 11125>>

\* canvas(**kwargs), lines 282-291: gcf() always returns a figure, whose size
\* is set.
canvas(fig, kwargs) ==
    LET settings == Update([figure_size |-> DEFAULT_FIGURE_SIZE], kwargs)
    IN  [fig EXCEPT !.size = Some(settings.figure_size)]

\* boundaries(**kwargs) setting the limits from limits and margins although
\* a bounding box is given.
boundaries_ignoring_bounding_box(ax, kwargs) ==
    LET settings == Update([bounding_box |-> None, x_tighten |-> FALSE,
                            y_tighten |-> FALSE,
                            limits |-> <<0, Unit, 0, Unit>>,
                            margins |-> <<0, 0, 0, 0>>], kwargs)
        l == settings.limits
        m == settings.margins
        x == IF settings.x_tighten
             THEN [ax EXCEPT !.xlim = Some(<<l[1] + m[1], l[2] + m[2]>>)]
             ELSE ax
    IN  IF settings.y_tighten
        THEN [x EXCEPT !.ylim = Some(<<l[3] + m[3], l[4] + m[4]>>)]
        ELSE x

\* boundaries(**kwargs), lines 358-380: the axes after the call.
boundaries(ax, kwargs) ==
    LET settings == Update([bounding_box |-> None, x_tighten |-> FALSE,
                            y_tighten |-> FALSE,
                            limits |-> <<0, Unit, 0, Unit>>,
                            margins |-> <<0, 0, 0, 0>>], kwargs)
        l == settings.limits
        m == settings.margins
        bb == settings.bounding_box
        x == IF settings.x_tighten
             THEN [ax EXCEPT !.xlim = Some(<<l[1] + m[1], l[2] + m[2]>>)]
             ELSE ax
    IN  IF bb = None
        THEN IF settings.y_tighten
             THEN [x EXCEPT !.ylim = Some(<<l[3] + m[3], l[4] + m[4]>>)]
             ELSE x
        ELSE [ax EXCEPT !.xlim = Some(<<bb[1], bb[2]>>),
                        !.ylim = Some(<<bb[3], bb[4]>>)]

\* decorate(**kwargs), lines 432-482: the axes after the call.
decorate(ax, kwargs) ==
    LET settings ==
          Update([title |-> None, x_label |-> None, y_label |-> None,
                  legend |-> FALSE, legend_columns |-> 1,
                  legend_location |-> "upper right", x_ticker |-> TRUE,
                  y_ticker |-> TRUE,
                  x_ticker_locator |-> "AutoMinorLocator(2)",
                  y_ticker_locator |-> "AutoMinorLocator(2)",
                  grid |-> FALSE, grid_which |-> "both", grid_axis |-> "both",
                  x_axis_line |-> FALSE, y_axis_line |-> FALSE,
                  aspect |-> None, no_axes |-> FALSE], kwargs)
        a1 == IF Truthy(settings.title)
              THEN [ax EXCEPT !.title = settings.title] ELSE ax
        a2 == IF Truthy(settings.x_label)
              THEN [a1 EXCEPT !.x_label = settings.x_label] ELSE a1
        a3 == IF Truthy(settings.y_label)
              THEN [a2 EXCEPT !.y_label = settings.y_label] ELSE a2
        a4 == IF settings.legend
              THEN [a3 EXCEPT !.legend = Some(<<settings.legend_location,
                                                settings.legend_columns>>)]
              ELSE a3
        a5 == IF settings.x_ticker
              THEN [a4 EXCEPT !.x_minor_locator = Some(settings.x_ticker_locator)]
              ELSE [a4 EXCEPT !.x_ticks = Some(<< >>)]
        a6 == IF settings.y_ticker
              THEN [a5 EXCEPT !.y_minor_locator = Some(settings.y_ticker_locator)]
              ELSE [a5 EXCEPT !.y_ticks = Some(<< >>)]
        a7 == IF settings.grid
              THEN [a6 EXCEPT !.grid = Some(<<settings.grid_which,
                                              settings.grid_axis>>)]
              ELSE a6
        a8 == IF settings.x_axis_line
              THEN [a7 EXCEPT !.lines = Append(@, "axvline")] ELSE a7
        a9 == IF settings.y_axis_line
              THEN [a8 EXCEPT !.lines = Append(@, "axhline")] ELSE a8
        a10 == IF Truthy(settings.aspect)
               THEN [a9 EXCEPT !.aspect = settings.aspect] ELSE a9
    IN  IF settings.no_axes THEN [a10 EXCEPT !.axis_on = FALSE] ELSE a10

\* The figure object that gcf() returns.
Figure == Some("Figure")

\* The axes object that gca() returns.
Axes == Some("Axes")

\* display(**kwargs) closing the figure without saving or showing it.
display_close_only(fig, kwargs) ==
    LET settings == Update([transparent_background |-> FALSE,
                            tight_layout |-> FALSE, standalone |-> TRUE,
                            filename |-> None], kwargs)
    IN  IF settings.standalone
        THEN [figure |-> [fig EXCEPT !.events = Append(@, <<"close">>)],
              ret |-> None]
        ELSE [figure |-> fig, ret |-> Figure]

\* display(**kwargs), lines 506-529: the figure after the call and the value
\* returned.  events lists the calls of savefig, show and close, in order.
display(fig, kwargs) ==
    LET settings == Update([transparent_background |-> FALSE,
                            tight_layout |-> FALSE, standalone |-> TRUE,
                            filename |-> None], kwargs)
        f1 == IF settings.transparent_background
              THEN [fig EXCEPT !.patch_visible = FALSE] ELSE fig
        f2 == IF settings.tight_layout
              THEN [f1 EXCEPT !.tight_layout = TRUE] ELSE f1
    IN  IF settings.standalone
        THEN [figure |->
                [f2 EXCEPT !.events =
                   (IF settings.filename # None
                    THEN Append(@, <<"savefig", settings.filename[1]>>)
                    ELSE Append(@, <<"show">>)) \o <<<<"close">>>>],
              ret |-> None]
        ELSE [figure |-> f2, ret |-> Figure]

\* The factory registries: the names registered and the object of each.
RGB_COLOURSPACES ==
    [name \in {"sRGB", "ACES2065-1"} |-> <<"RGB_Colourspace", name>>]

CMFS ==
    [name \in {"CIE 1931 2 Degree Standard Observer"} |->
       <<"XYZ_ColourMatchingFunctions", name>>]

ILLUMINANTS_SPDS ==
    [name \in {"D65", "A"} |-> <<"SpectralPowerDistribution", name>>]

\* dict.get(key): the value of the key, None without it.
Get(mapping, key) ==
    IF key \in DOMAIN mapping THEN Some(mapping[key]) ELSE None

\* get_cmfs returning None for a name that is not registered.
get_cmfs_returning_None(registry, name) ==
    LET cmfs == Get(registry, name)
    IN  [ret |-> cmfs, raised |-> None]

\* get_RGB_colourspace(colourspace), lines 671-678.
get_RGB_colourspace(registry, name) ==
    LET colourspace == Get(registry, name)
    IN  IF colourspace = None
        THEN [ret |-> None, raised |-> Some("KeyError")]
        ELSE [ret |-> colourspace, raised |-> None]

\* get_cmfs(cmfs), lines 702-707.
get_cmfs(registry, name) ==
    LET cmfs == Get(registry, name)
    IN  IF cmfs = None
        THEN [ret |-> None, raised |-> Some("KeyError")]
        ELSE [ret |-> cmfs, raised |-> None]

\* get_illuminant(illuminant), lines 730-735.
get_illuminant(registry, name) ==
    LET illuminant == Get(registry, name)
    IN  IF illuminant = None
        THEN [ret |-> None, raised |-> Some("KeyError")]
        ELSE [ret |-> illuminant, raised |-> None]

VARIABLES
    ppc,        \* where the call into colour.plotting is: "idle", "paired",
                \* "drawing", "render", "bounded", "decorated", "done", "raised"
    pcall,      \* the definition called from outside and its arguments
    stack,      \* the locals of the definitions that are running, the
                \* innermost last
    figure,     \* matplotlib.pyplot.gcf()
    axes,       \* matplotlib.pyplot.gca()
    registries, \* RGB_COLOURSPACES, CMFS and ILLUMINANTS_SPDS
    calls,      \* the calls of boundaries, decorate and display made so far,
                \* with their keyword arguments and the value returned
    pret,       \* the value returned to the outside
    raised      \* the exception raised to the outside, None without one

plotvars == <<ppc, pcall, stack, figure, axes, registries, calls, pret, raised>>

\* No definition has been called.
NoFrame == [fn |-> "none"]

Registries ==
    [RGB_COLOURSPACES |-> RGB_COLOURSPACES, CMFS |-> CMFS,
     ILLUMINANTS_SPDS |-> ILLUMINANTS_SPDS]

\* Nothing of colour.plotting has been called on a new figure.
NoPlotting ==
    /\ ppc = "idle"
    /\ pcall = NoFrame
    /\ stack = << >>
    /\ figure = NewFigure
    /\ axes = NewAxes
    /\ registries = Registries
    /\ calls = << >>
    /\ pret = None
    /\ raised = None

----------------------------------------------------------------------------
(* Calls.  Each caller p owns an array, passes it by reference with the    *)
(* two factors, and the callee runs statement group by statement group.    *)

VARIABLES
    pc,       \* pc[p]: "idle", "called", "split", "polar", "computed", "done", "error"
    call,     \* call[p]: the function called and the scalars k_E, k_CH
    arg,      \* arg[p]: the caller's array object, as it is now
    loc,      \* loc[p]: the callee's local arrays
    ret,      \* ret[p]: the array returned
    arg0,     \* arg0[p]: the caller's array as it was when the call was made
    origin    \* origin[p]: the Lab array arg[p] was computed from by
              \* Lab_to_DIN99 with the factors of this call, if it was

callvars == <<pc, call, arg, loc, ret, arg0, origin>>

vars == <<callvars, plotvars>>

NoLocals ==
    [L |-> Unbound, a |-> Unbound, b |-> Unbound, e |-> Unbound, f |-> Unbound,
     G |-> Unbound, h_ef |-> Unbound, h_99 |-> Unbound, C_99 |-> Unbound,
     a_99 |-> Unbound, b_99 |-> Unbound, L_99 |-> Unbound]

NoCall == [fn |-> "none", k_E |-> One, k_CH |-> One]

\* The most rows a batch passed to a call has.
MaxBatch == 2

\* Factors: 1 (the default), 1.5, 0.8, and the non-positive 0 and -1.
PosFactors == {Fin(Scale), Fin(1500000), Fin(800000)}
Factors == PosFactors \cup {Fin(0), Fin(-Scale)}

\* Lab triples: L in [0, 100]; L = -63.291139 where 1 + 0.0158 L rounds to
\* 0; L = -80 where it is negative.
InDomainL == {0, 50000000, 100000000}
BoundaryL == -63291139
Lightnesses == InDomainL \cup {BoundaryL, -80000000}
Chromas == {0, 20000000, -12500000}
Triple(x, y, z) == Arr(<<3>>, <<Fin(x), Fin(y), Fin(z)>>)
LabTriples == {Triple(x, y, z) : x \in Lightnesses, y \in Chromas, z \in Chromas}

\* DIN99 triples passed to DIN99_to_Lab directly.
DIN99Triples ==
    {Triple(0, 0, 0), Triple(49601016, -16231457, 1076181),
     Triple(100000000, 0, 0), Triple(20000000, 0, -30000000)}

\* Rows of the batches.
BatchRows ==
    {<<50000000, 0, 0>>, <<100000000, 20000000, -12500000>>,
     <<0, -12500000, 20000000>>}

RECURSIVE Flatten(_)
Flatten(rows) ==
    IF rows = << >> THEN << >>
    ELSE <<Fin(Head(rows)[1]), Fin(Head(rows)[2]), Fin(Head(rows)[3])>>
         \o Flatten(Tail(rows))

\* Batches of n triples, of shape (n, 3) and of shape (1, n, 3).
Batches ==
    UNION {{Arr(shape, Flatten(rows)) :
              rows \in [1..n -> BatchRows], shape \in {<<n, 3>>, <<1, n, 3>>}}
           : n \in 1..MaxBatch}

\* Arrays whose last axis does not have length 3.
Zeros(shape, n) == Arr(shape, [i \in 1..n |-> Fin(0)])
Misshapen ==
    {Zeros(<<2>>, 2), Zeros(<<4>>, 4), Zeros(<<3, 2>>, 6), Zeros(<<2, 4>>, 8),
     Zeros(<<1>>, 1)}

Functions == {"Lab_to_DIN99", "DIN99_to_Lab"}

\* The calls a caller makes.
Calls ==
    [fn : {"Lab_to_DIN99"}, arg : LabTriples, k_E : Factors, k_CH : Factors]
    \cup [fn : {"DIN99_to_Lab"}, arg : DIN99Triples, k_E : Factors, k_CH : Factors]
    \cup [fn : Functions, arg : Batches, k_E : PosFactors, k_CH : {One}]
    \cup [fn : Functions, arg : Misshapen, k_E : {One}, k_CH : {One}]

Init ==
    /\ pc = [p \in {1} |-> "idle"]
    /\ call = [p \in {1} |-> NoCall]
    /\ arg = [p \in {1} |-> Unbound]
    /\ loc = [p \in {1} |-> NoLocals]
    /\ ret = [p \in {1} |-> Unbound]
    /\ arg0 = [p \in {1} |-> Unbound]
    /\ origin = [p \in {1} |-> Unbound]
    /\ NoPlotting

\* def Lab_to_DIN99(Lab, k_E=1, k_CH=1) / def DIN99_to_Lab(Lab_99, k_E=1, k_CH=1):
\* caller p calls c.fn on its array c.arg.
Enter(p, c, from) ==
    /\ pc' = [pc EXCEPT ![p] = "called"]
    /\ call' = [call EXCEPT ![p] = [fn |-> c.fn, k_E |-> c.k_E, k_CH |-> c.k_CH]]
    /\ arg' = [arg EXCEPT ![p] = c.arg]
    /\ arg0' = [arg0 EXCEPT ![p] = c.arg]
    /\ origin' = [origin EXCEPT ![p] = from]
    /\ loc' = [loc EXCEPT ![p] = NoLocals]
    /\ ret' = [ret EXCEPT ![p] = Unbound]
    /\ UNCHANGED plotvars

Call(p) ==
    /\ pc[p] = "idle"
    /\ \E c \in Calls : Enter(p, c, Unbound)

\* The caller passes the result of Lab_to_DIN99 to DIN99_to_Lab, with the
\* same factors.
CallInverse(p) ==
    /\ pc[p] = "done"
    /\ call[p].fn = "Lab_to_DIN99"
    /\ Enter(p, [fn |-> "DIN99_to_Lab", arg |-> ret[p], k_E |-> call[p].k_E,
                 k_CH |-> call[p].k_CH], arg[p])

\* Split unpacking the first three channels, however many there are.
Split_first_three(p) ==
    /\ pc[p] = "called"
    /\ LET s == tsplit(arg[p])
       IN  IF Len(s) < 3
           THEN /\ pc' = [pc EXCEPT ![p] = "error"]
                /\ loc' = loc
           ELSE /\ pc' = [pc EXCEPT ![p] = "split"]
                /\ loc' = [loc EXCEPT ![p] =
                             IF call[p].fn = "Lab_to_DIN99"
                             THEN [@ EXCEPT !.L = s[1], !.a = s[2], !.b = s[3]]
                             ELSE [@ EXCEPT !.L_99 = s[1], !.a_99 = s[2], !.b_99 = s[3]]]
    /\ UNCHANGED <<call, arg, ret, arg0, origin, plotvars>>

\* L, a, b = tsplit(Lab) / L_99, a_99, b_99 = tsplit(Lab_99): unpacking
\* anything but three channels raises ValueError.
Split(p) ==
    /\ pc[p] = "called"
    /\ LET s == tsplit(arg[p])
       IN  IF Len(s) # 3
           THEN /\ pc' = [pc EXCEPT ![p] = "error"]
                /\ loc' = loc
           ELSE /\ pc' = [pc EXCEPT ![p] = "split"]
                /\ loc' = [loc EXCEPT ![p] =
                             IF call[p].fn = "Lab_to_DIN99"
                             THEN [@ EXCEPT !.L = s[1], !.a = s[2], !.b = s[3]]
                             ELSE [@ EXCEPT !.L_99 = s[1], !.a_99 = s[2], !.b_99 = s[3]]]
    /\ UNCHANGED <<call, arg, ret, arg0, origin, plotvars>>

\* Polar writing e and f (h_99 and C_99) back into the caller's array, in
\* place of its second and third channels.
Polar_in_place(p) ==
    /\ pc[p] = "split"
    /\ pc' = [pc EXCEPT ![p] = "polar"]
    /\ LET l == loc[p]
           e == Fwd_e(l.a, l.b)
           f == Fwd_f(l.a, l.b)
           h_99 == Inv_h_99(l.a_99, l.b_99)
           C_99 == Inv_C_99(l.a_99, l.b_99)
       IN  IF call[p].fn = "Lab_to_DIN99"
           THEN /\ loc' = [loc EXCEPT ![p] =
                             [l EXCEPT !.e = e, !.f = f, !.G = Fwd_G(e, f),
                                       !.h_ef = Fwd_h_ef(e, f)]]
                /\ arg' = [arg EXCEPT ![p] = tstack(<<l.L, e, f>>)]
           ELSE /\ loc' = [loc EXCEPT ![p] = [l EXCEPT !.h_99 = h_99, !.C_99 = C_99]]
                /\ arg' = [arg EXCEPT ![p] = tstack(<<l.L_99, h_99, C_99>>)]
    /\ UNCHANGED <<call, ret, arg0, origin, plotvars>>

\* Lab_to_DIN99: e, f, G, h_ef.  DIN99_to_Lab: h_99, C_99.
Polar(p) ==
    /\ pc[p] = "split"
    /\ pc' = [pc EXCEPT ![p] = "polar"]
    /\ LET l == loc[p]
           e == Fwd_e(l.a, l.b)
           f == Fwd_f(l.a, l.b)
       IN  loc' = [loc EXCEPT ![p] =
                     IF call[p].fn = "Lab_to_DIN99"
                     THEN [l EXCEPT !.e = e, !.f = f, !.G = Fwd_G(e, f),
                                    !.h_ef = Fwd_h_ef(e, f)]
                     ELSE [l EXCEPT !.h_99 = Inv_h_99(l.a_99, l.b_99),
                                    !.C_99 = Inv_C_99(l.a_99, l.b_99)]]
    /\ UNCHANGED <<call, arg, ret, arg0, origin, plotvars>>

\* Lab_to_DIN99: C_99, a_99, b_99, L_99.  DIN99_to_Lab: G, e, f, a, b, L.
Compress(p) ==
    /\ pc[p] = "polar"
    /\ pc' = [pc EXCEPT ![p] = "computed"]
    /\ LET l == loc[p]
           k_E == call[p].k_E
           k_CH == call[p].k_CH
           C_99 == Fwd_C_99(l.G, k_E, k_CH)
           G == Inv_G(l.C_99, k_E, k_CH)
           e == Inv_e(G, l.h_99)
           f == Inv_f(G, l.h_99)
       IN  loc' = [loc EXCEPT ![p] =
                     IF call[p].fn = "Lab_to_DIN99"
                     THEN [l EXCEPT !.C_99 = C_99,
                                    !.a_99 = Fwd_a_99(C_99, l.h_ef),
                                    !.b_99 = Fwd_b_99(C_99, l.h_ef),
                                    !.L_99 = Fwd_L_99(l.L, k_E)]
                     ELSE [l EXCEPT !.G = G, !.e = e, !.f = f,
                                    !.a = Inv_a(e, f), !.b = Inv_b(e, f),
                                    !.L = Inv_L(l.L_99, k_E)]]
    /\ UNCHANGED <<call, arg, ret, arg0, origin, plotvars>>

\* return tstack([L_99, a_99, b_99]) / return tstack([L, a, b])
Return(p) ==
    /\ pc[p] = "computed"
    /\ pc' = [pc EXCEPT ![p] = "done"]
    /\ ret' = [ret EXCEPT ![p] =
                 IF call[p].fn = "Lab_to_DIN99"
                 THEN Fwd_return(loc[p].L_99, loc[p].a_99, loc[p].b_99)
                 ELSE Inv_return(loc[p].L, loc[p].a, loc[p].b)]
    /\ UNCHANGED <<call, arg, loc, arg0, origin, plotvars>>

Next ==
    \/ \E p \in DOMAIN pc : Call(p)
    \/ \E p \in DOMAIN pc : CallInverse(p)
    \/ \E p \in DOMAIN pc : Split(p)
    \/ \E p \in DOMAIN pc : Polar(p)
    \/ \E p \in DOMAIN pc : Compress(p)
    \/ \E p \in DOMAIN pc : Return(p)

Spec == Init /\ [][Next]_vars

----------------------------------------------------------------------------
(* Vocabulary of the properties.                                           *)

\* Two results agree to the precision of the arithmetic: both finite and no
\* more than Tol units (of 1/Scale) apart.  (Each function of the model is
\* accurate to a few units; a conversion and its inverse compose some twenty
\* of them.)
Tol == 1000
Close(x, y) == IsFin(x) /\ IsFin(y) /\ Abs(x.v - y.v) <= Tol

\* The call of p to function f has returned.
Returned(p, f) == pc[p] = "done" /\ call[p].fn = f

\* The triples of an array whose last axis has length 3, and the i-th one.
Rows(A) == 1..(Len(A.data) \div 3)
Row(A, i) == [c \in 1..3 |-> A.data[3 * (i - 1) + c]]

AllFinite(A) == \A i \in 1..Len(A.data) : IsFin(A.data[i])

\* L is in the domain [0, 100] of the lightness.
InDomain(L) == IsFin(L) /\ 0 <= L.v /\ L.v <= 100 * Scale

Positive(k) == IsFin(k) /\ k.v > 0

\* The argument 1 + 0.0158 * L of the logarithm of L_99, and the divisor
\* 0.045 * k_CH * k_E of C_99, as the code evaluates them.
LogArgument(L) == Add(One, Mul(Fin(C_0_0158), L))
Divisor(k_E, k_CH) == Mul(Mul(Fin(C_0_045), k_CH), k_E)

\* The call of p is DIN99_to_Lab on the result of Lab_to_DIN99(origin[p]).
RoundTripped(p) == Returned(p, "DIN99_to_Lab") /\ origin[p] # Unbound

----------------------------------------------------------------------------
\* C1: for every in-domain Lab triple x and every k_E > 0, k_CH > 0,
\* DIN99_to_Lab(Lab_to_DIN99(x, k_E, k_CH), k_E, k_CH) equals x in the three
\* channels L, a and b, to floating-point precision.
C1_RoundTrip ==
    \A p \in DOMAIN pc :
        (RoundTripped(p) /\ Positive(call[p].k_E) /\ Positive(call[p].k_CH))
        => \A i \in Rows(origin[p]) :
             InDomain(Row(origin[p], i)[1])
             => \A c \in 1..3 : Close(Row(ret[p], i)[c], Row(origin[p], i)[c])

----------------------------------------------------------------------------
\* The i-th triple of A is achromatic (a = b = 0), and is (0, 0, 0).
Achromatic(A, i) == IsZero(Row(A, i)[2]) /\ IsZero(Row(A, i)[3])
ZeroRow(A, i) == \A c \in 1..3 : IsZero(Row(A, i)[c])

\* C2 as stated: for every L and every k_E, k_CH, Lab_to_DIN99 maps
\* (L, 0, 0) to a triple whose a99 and b99 are both exactly 0.
C2_AchromaticAnyFactor ==
    \A p \in DOMAIN pc :
        Returned(p, "Lab_to_DIN99")
        => \A i \in Rows(arg0[p]) :
             Achromatic(arg0[p], i) => Achromatic(ret[p], i)

\* C2 amended: for every L and every k_E, k_CH whose divisor
\* 0.045 * k_CH * k_E is not zero, Lab_to_DIN99 maps (L, 0, 0) to a triple
\* whose a99 and b99 are both exactly 0.
C2_Achromatic ==
    \A p \in DOMAIN pc :
        (Returned(p, "Lab_to_DIN99") /\ ~IsZero(Divisor(call[p].k_E, call[p].k_CH)))
        => \A i \in Rows(arg0[p]) :
             Achromatic(arg0[p], i) => Achromatic(ret[p], i)

\* An achromatic triple of non-zero lightness has been converted with a
\* negative k_CH and a k_E other than 1.
C2_Witness ==
    \E p \in DOMAIN pc :
        /\ Returned(p, "Lab_to_DIN99")
        /\ call[p].k_E = Fin(1500000) /\ call[p].k_CH = Fin(-Scale)
        /\ Achromatic(arg0[p], 1) /\ ~IsZero(Row(arg0[p], 1)[1])
        /\ Achromatic(ret[p], 1)

\* C3 as stated: for every k_E and k_CH both functions map (0, 0, 0) to
\* (0, 0, 0).
C3_ZeroPointAnyFactor ==
    \A p \in DOMAIN pc :
        pc[p] = "done"
        => \A i \in Rows(arg0[p]) : ZeroRow(arg0[p], i) => ZeroRow(ret[p], i)

\* C3 amended: DIN99_to_Lab maps (0, 0, 0) to (0, 0, 0) for every k_E and
\* k_CH; Lab_to_DIN99 does for every k_E and k_CH whose divisor
\* 0.045 * k_CH * k_E is not zero.
C3_ZeroPoint ==
    \A p \in DOMAIN pc :
        (\/ Returned(p, "DIN99_to_Lab")
         \/ Returned(p, "Lab_to_DIN99")
            /\ ~IsZero(Divisor(call[p].k_E, call[p].k_CH)))
        => \A i \in Rows(arg0[p]) : ZeroRow(arg0[p], i) => ZeroRow(ret[p], i)

\* DIN99_to_Lab has been called on (0, 0, 0) directly, with k_E = 0.
C3_Witness ==
    \E p \in DOMAIN pc :
        /\ Returned(p, "DIN99_to_Lab")
        /\ origin[p] = Unbound
        /\ IsZero(call[p].k_E) /\ call[p].k_CH = Fin(1500000)
        /\ ZeroRow(arg0[p], 1) /\ ZeroRow(ret[p], 1)

\* L_99 of the lightness L alone, with k_E = 1 (a = b = 0 and k_CH = 1).
L_99_unscaled(L) == Row(Lab_to_DIN99(Arr(<<3>>, <<L, Fin(0), Fin(0)>>), One, One), 1)[1]

\* C4: for a lightness L in the domain of the logarithm, the L99 returned
\* with factor k_E is k_E times the L99 computed with k_E = 1, whatever a, b
\* and k_CH are.
C4_LightnessScaling ==
    \A p \in DOMAIN pc :
        Returned(p, "Lab_to_DIN99")
        => \A i \in Rows(arg0[p]) :
             LET L == Row(arg0[p], i)[1]
             IN  Positive(LogArgument(L))
                 => /\ IsFin(Row(ret[p], i)[1])
                    /\ Row(ret[p], i)[1] = Mul(call[p].k_E, L_99_unscaled(L))

\* A chromatic triple has been converted with k_E = 1.5 and k_CH = 0.8.
C4_Witness ==
    \E p \in DOMAIN pc :
        /\ Returned(p, "Lab_to_DIN99")
        /\ call[p].k_E = Fin(1500000) /\ call[p].k_CH = Fin(800000)
        /\ ~Achromatic(arg0[p], 1)
        /\ Row(arg0[p], 1)[1] = Fin(50000000)
        /\ Row(ret[p], 1)[1] = Mul(Fin(1500000), L_99_unscaled(Fin(50000000)))
        /\ Row(ret[p], 1)[1] # L_99_unscaled(Fin(50000000))

----------------------------------------------------------------------------
NonPositive(x) == IsFin(x) /\ x.v <= 0
Negative(x) == IsFin(x) /\ x.v < 0

\* C5 as stated: whenever 1 + 0.0158 * L <= 0, the boundary 0 included, a
\* call of Lab_to_DIN99 that returns (raises no error) returns NaN for L99.
C5_LightnessDomainNaN ==
    \A p \in DOMAIN pc :
        Returned(p, "Lab_to_DIN99")
        => \A i \in Rows(arg0[p]) :
             NonPositive(LogArgument(Row(arg0[p], i)[1])) => IsNaN(Row(ret[p], i)[1])

\* C5 amended: Lab_to_DIN99 raises no error for such an L and returns a
\* non-finite L99, never a clamped or other finite value: NaN whenever
\* 1 + 0.0158 * L < 0; at the boundary 1 + 0.0158 * L = 0 the logarithm is
\* -inf and L99 is -inf for k_E > 0, +inf for k_E < 0 and NaN for k_E = 0.
C5_LightnessDomain ==
    \A p \in DOMAIN pc :
        /\ (pc[p] = "error" /\ call[p].fn = "Lab_to_DIN99") => LastAxis(arg0[p]) # 3
        /\ Returned(p, "Lab_to_DIN99")
           => \A i \in Rows(arg0[p]) :
                LET x == LogArgument(Row(arg0[p], i)[1])
                    L_99 == Row(ret[p], i)[1]
                    k_E == call[p].k_E
                IN  /\ Negative(x) => IsNaN(L_99)
                    /\ IsZero(x)
                       => L_99 = (IF IsZero(k_E) THEN NaN
                                  ELSE IF Negative(k_E) THEN Inf(1) ELSE Inf(-1))

\* Lab_to_DIN99 has returned L99 = -inf for the boundary lightness, and NaN
\* for a lightness below it.
C5_Witness ==
    \E p \in DOMAIN pc :
        /\ Returned(p, "Lab_to_DIN99")
        /\ Positive(call[p].k_E)
        /\ Row(arg0[p], 1)[1] = Fin(BoundaryL)
        /\ IsZero(LogArgument(Fin(BoundaryL)))
        /\ Row(ret[p], 1)[1] = Inf(-1)

\* C6 as stated: a call of either function with k_E <= 0 or k_CH <= 0 that
\* returns (raises no error) returns a result that is not finite.
C6_FactorDomainError ==
    \A p \in DOMAIN pc :
        (pc[p] = "done" /\ (NonPositive(call[p].k_E) \/ NonPositive(call[p].k_CH)))
        => ~AllFinite(ret[p])

\* C6 amended: no call raises an error because of k_E <= 0 or k_CH <= 0.
\* For a finite input, Lab_to_DIN99 returns non-finite a99 and b99 (inf or
\* NaN, from the division by 0.045 * k_CH * k_E) when k_E = 0 or k_CH = 0,
\* and finite a99 and b99 when both factors are non-zero, negative ones
\* included; DIN99_to_Lab returns a finite triple whatever the factors are.
C6_FactorEffects ==
    \A p \in DOMAIN pc :
        /\ pc[p] = "error" => LastAxis(arg0[p]) # 3
        /\ (pc[p] = "done" /\ AllFinite(arg0[p])
            /\ (NonPositive(call[p].k_E) \/ NonPositive(call[p].k_CH)))
           => IF call[p].fn = "DIN99_to_Lab"
              THEN AllFinite(ret[p])
              ELSE \A i \in Rows(ret[p]) :
                     IF IsZero(call[p].k_E) \/ IsZero(call[p].k_CH)
                     THEN ~IsFin(Row(ret[p], i)[2]) /\ ~IsFin(Row(ret[p], i)[3])
                     ELSE IsFin(Row(ret[p], i)[2]) /\ IsFin(Row(ret[p], i)[3])

\* Lab_to_DIN99 has returned a finite triple for k_E = -1, and non-finite
\* a99 and b99 are returned for k_CH = 0 elsewhere.
C6_Witness ==
    \E p \in DOMAIN pc :
        /\ Returned(p, "Lab_to_DIN99")
        /\ call[p].k_E = Fin(-Scale) /\ call[p].k_CH = One
        /\ ~Achromatic(arg0[p], 1)
        /\ AllFinite(ret[p])

----------------------------------------------------------------------------
\* The call of p has got past the channel split.
PastSplit(p) == pc[p] \in {"split", "polar", "computed", "done"}

\* C7: a call of either function on an array whose last axis has a length
\* other than 3 fails at the channel split: it never gets past it, no local
\* of the callee is bound and nothing is returned.  (A call on an array whose
\* last axis has length 3 does not fail.)
C7_ShapeMismatch ==
    \A p \in DOMAIN pc :
        /\ (pc[p] \notin {"idle", "called"} /\ LastAxis(arg0[p]) # 3)
           => (pc[p] = "error" /\ loc[p] = NoLocals /\ ret[p] = Unbound)
        /\ pc[p] = "error" => LastAxis(arg0[p]) # 3

\* A call on an array of shape (3, 2) (three rows, last axis of length 2) has
\* failed.
C7_Witness ==
    \E p \in DOMAIN pc :
        /\ pc[p] = "error"
        /\ arg0[p].shape = <<3, 2>>
        /\ loc[p] = NoLocals /\ ret[p] = Unbound

\* The function a call names, applied to the whole array A.
Apply(fn, A, k_E, k_CH) ==
    IF fn = "Lab_to_DIN99" THEN Lab_to_DIN99(A, k_E, k_CH)
    ELSE DIN99_to_Lab(A, k_E, k_CH)

\* C8: element i of the result of either function on a batch of triples is
\* the result of the function on triple i alone, with the same k_E and k_CH
\* (and so does not depend on the other elements of the batch).
C8_BatchIndependence ==
    \A p \in DOMAIN pc :
        pc[p] = "done"
        => \A i \in Rows(arg0[p]) :
             Row(ret[p], i)
               = Apply(call[p].fn, Arr(<<3>>, Row(arg0[p], i)),
                       call[p].k_E, call[p].k_CH).data

\* A batch of two different chromatic triples has been converted.
C8_Witness ==
    \E p \in DOMAIN pc :
        /\ Returned(p, "Lab_to_DIN99")
        /\ arg0[p].shape = <<2, 3>>
        /\ Row(arg0[p], 1) # Row(arg0[p], 2)
        /\ ~Achromatic(arg0[p], 1) /\ ~Achromatic(arg0[p], 2)
        /\ Row(ret[p], 1) # Row(ret[p], 2)
        /\ Row(ret[p], 2)
             = Lab_to_DIN99(Arr(<<3>>, Row(arg0[p], 2)), call[p].k_E, call[p].k_CH).data

\* C9: the array either function returns has the shape of its input, and its
\* last axis holds the channels in the order (L99, a99, b99), respectively
\* (L, a, b).
C9_ShapePreserved ==
    \A p \in DOMAIN pc :
        pc[p] = "done"
        => /\ ret[p].shape = arg0[p].shape
           /\ Len(ret[p].data) = Len(arg0[p].data)
           /\ tsplit(ret[p])
                = IF call[p].fn = "Lab_to_DIN99"
                  THEN <<loc[p].L_99, loc[p].a_99, loc[p].b_99>>
                  ELSE <<loc[p].L, loc[p].a, loc[p].b>>
           /\ \A c \in 1..3 : tsplit(ret[p])[c].shape = Leading(arg0[p].shape)

\* An array of shape (1, 2, 3) has been converted to an array of shape
\* (1, 2, 3).
C9_Witness ==
    \E p \in DOMAIN pc :
        /\ Returned(p, "Lab_to_DIN99")
        /\ arg0[p].shape = <<1, 2, 3>>
        /\ ret[p].shape = <<1, 2, 3>>
        /\ loc[p].L_99.shape = <<1, 2>>
        /\ loc[p].L_99.data # loc[p].a_99.data

----------------------------------------------------------------------------
(* Concurrent calls: two callers, each with an array of its own, whose     *)
(* calls run interleaved statement group by statement group.               *)

ParArrays ==
    {Triple(50000000, 20000000, -12500000),
     Arr(<<2, 3>>, Flatten(<<<<100000000, 20000000, -12500000>>,
                             <<0, -12500000, 20000000>>>>)),
     Zeros(<<4>>, 4)}

ParCalls ==
    [fn : Functions, arg : ParArrays, k_E : {One, Fin(1500000)}, k_CH : {One}]

InitPar ==
    /\ pc = [p \in {1, 2} |-> "idle"]
    /\ call = [p \in {1, 2} |-> NoCall]
    /\ arg = [p \in {1, 2} |-> Unbound]
    /\ loc = [p \in {1, 2} |-> NoLocals]
    /\ ret = [p \in {1, 2} |-> Unbound]
    /\ arg0 = [p \in {1, 2} |-> Unbound]
    /\ origin = [p \in {1, 2} |-> Unbound]
    /\ NoPlotting

CallPar(p) ==
    /\ pc[p] = "idle"
    /\ \E c \in ParCalls : Enter(p, c, Unbound)

NextPar ==
    \/ \E p \in DOMAIN pc : CallPar(p)
    \/ \E p \in DOMAIN pc : Split(p)
    \/ \E p \in DOMAIN pc : Polar(p)
    \/ \E p \in DOMAIN pc : Compress(p)
    \/ \E p \in DOMAIN pc : Return(p)

SpecPar == InitPar /\ [][NextPar]_vars

\* C10: under every interleaving of two concurrent calls on arrays of their
\* own, the caller's array is never changed by the call, and a call that
\* returns returns what the function returns for that array when run alone.
C10_Purity ==
    \A p \in DOMAIN pc :
        /\ arg[p] = arg0[p]
        /\ pc[p] = "done"
           => ret[p] = Apply(call[p].fn, arg0[p], call[p].k_E, call[p].k_CH)

\* Two calls, of Lab_to_DIN99 and of DIN99_to_Lab on different arrays, have
\* both returned.
C10_Witness ==
    /\ DOMAIN pc = {1, 2}
    /\ Returned(1, "Lab_to_DIN99") /\ Returned(2, "DIN99_to_Lab")
    /\ arg0[1] # arg0[2]
    /\ arg[1] = arg0[1] /\ arg[2] = arg0[2]
    /\ ret[1] = Lab_to_DIN99(arg0[1], call[1].k_E, call[1].k_CH)
    /\ ret[2] = DIN99_to_Lab(arg0[2], call[2].k_E, call[2].k_CH)
    /\ ret[1] # ret[2]

----------------------------------------------------------------------------
(* The steps of the two functions against each other.                      *)

\* The product k_E * k_CH of the factors of the call of p is positive.
PositiveProduct(p) == Positive(Mul(call[p].k_E, call[p].k_CH))

\* The call of p has bound every local of the function it runs.
Computed(p) == pc[p] \in {"computed", "done"}

\* The elements of two arrays of one shape agree to the precision of the
\* arithmetic.
AllClose(A, B) ==
    /\ Len(A.data) = Len(B.data)
    /\ \A i \in 1..Len(A.data) : Close(A.data[i], B.data[i])

\* The G that Lab_to_DIN99 computes for the array Lab.
G_of(Lab) ==
    LET s == tsplit(Lab) IN Fwd_G(Fwd_e(s[2], s[3]), Fwd_f(s[2], s[3]))

\* C17: for k_E * k_CH > 0 (G is a norm, so G >= 0), the inverse step
\* G' = (exp(0.045 * C_99 * k_CH * k_E) - 1) / 0.045 applied to the C_99 that
\* Lab_to_DIN99 computed from G gives G again, with the same k_E and k_CH;
\* and the G that DIN99_to_Lab computes from the result of Lab_to_DIN99 is
\* the G that Lab_to_DIN99 computed.
C17_ChromaExpansion ==
    \A p \in DOMAIN pc :
        (Computed(p) /\ PositiveProduct(p))
        => /\ call[p].fn = "Lab_to_DIN99"
              => AllClose(Inv_G(loc[p].C_99, call[p].k_E, call[p].k_CH), loc[p].G)
           /\ (call[p].fn = "DIN99_to_Lab" /\ origin[p] # Unbound)
              => AllClose(loc[p].G, G_of(origin[p]))

\* DIN99_to_Lab, called with k_E = 1.5 and k_CH = 0.8 on the result of
\* Lab_to_DIN99 for a = 20, b = -12.5, has computed a G above 19 that is the
\* G of Lab_to_DIN99.
C17_Witness ==
    \E p \in DOMAIN pc :
        /\ pc[p] = "computed" /\ call[p].fn = "DIN99_to_Lab"
        /\ origin[p] = Triple(50000000, 20000000, -12500000)
        /\ call[p].k_E = Fin(1500000) /\ call[p].k_CH = Fin(800000)
        /\ loc[p].G.data[1].v > 19 * Scale
        /\ AllClose(loc[p].G, G_of(origin[p]))

\* C18: for every (a, b), the a' = e * cos_16 - (f / 0.7) * sin_16 and
\* b' = e * sin_16 + (f / 0.7) * cos_16 of DIN99_to_Lab, applied to the e and
\* f that Lab_to_DIN99 computed from (a, b), are a and b again.
C18_RotationUndone ==
    \A p \in DOMAIN pc :
        (call[p].fn = "Lab_to_DIN99" /\ pc[p] \in {"polar", "computed", "done"})
        => /\ AllClose(Inv_a(loc[p].e, loc[p].f), loc[p].a)
           /\ AllClose(Inv_b(loc[p].e, loc[p].f), loc[p].b)

\* Lab_to_DIN99 has computed e and f for a batch of two triples with
\* (a, b) = (20, -12.5) and (-12.5, 20); f is not the unscaled rotation.
C18_Witness ==
    \E p \in DOMAIN pc :
        /\ call[p].fn = "Lab_to_DIN99" /\ pc[p] = "polar"
        /\ loc[p].a.data = <<Fin(20000000), Fin(-12500000)>>
        /\ loc[p].b.data = <<Fin(-12500000), Fin(20000000)>>
        /\ loc[p].f # Fwd_f_unscaled(loc[p].a, loc[p].b)
        /\ AllClose(Inv_a(loc[p].e, loc[p].f), loc[p].a)
        /\ AllClose(Inv_b(loc[p].e, loc[p].f), loc[p].b)

\* C19: for a triple with G > 0 and k_E * k_CH > 0, the hue angle
\* atan2(b_99, a_99) of the output of Lab_to_DIN99 is the angle h_ef of the
\* (e, f) frame, and the chroma sqrt(a_99^2 + b_99^2) of the output is C_99,
\* which is not negative.
C19_HuePreserved ==
    \A p \in DOMAIN pc :
        (call[p].fn = "Lab_to_DIN99" /\ Computed(p) /\ PositiveProduct(p))
        => \A i \in 1..Len(loc[p].G.data) :
             Positive(loc[p].G.data[i])
             => /\ Close(Inv_h_99(loc[p].a_99, loc[p].b_99).data[i],
                         loc[p].h_ef.data[i])
                /\ Close(Inv_C_99(loc[p].a_99, loc[p].b_99).data[i],
                         loc[p].C_99.data[i])
                /\ loc[p].C_99.data[i].v >= 0

\* Lab_to_DIN99 has returned for a = -12.5, b = 20 with k_E = k_CH = -1: the
\* hue angle is above a right angle and C_99 is positive.
C19_Witness ==
    \E p \in DOMAIN pc :
        /\ Returned(p, "Lab_to_DIN99")
        /\ call[p].k_E = Fin(-Scale) /\ call[p].k_CH = Fin(-Scale)
        /\ Row(arg0[p], 1)[2] = Fin(-12500000) /\ Row(arg0[p], 1)[3] = Fin(20000000)
        /\ loc[p].h_ef.data[1].v > HALFPI
        /\ loc[p].C_99.data[1].v > 0
        /\ Close(Inv_h_99(loc[p].a_99, loc[p].b_99).data[1], loc[p].h_ef.data[1])

----------------------------------------------------------------------------
(* Calls into colour/plotting/common.py: one call from outside, which runs *)
(* statement group by statement group on the current figure.               *)

MaxSwatches == 4
MaxColumns == 3

\* str(compare_swatches).lower()
str_lower(x) ==
    IF x = None THEN "none"
    ELSE IF x = Some("Stacked") THEN "stacked"
    ELSE IF x = Some("Diagonal") THEN "diagonal"
    ELSE x[1]

\* sequence[start::2], start counted from 0.
Slice2(sequence, start) ==
    [k \in 1..((Len(sequence) - start + 1) \div 2) |-> sequence[start + 2 * k - 1]]

Min(x, y) == IF x <= y THEN x ELSE y

\* Lines 849-856 without the assertion.
pair_swatches_unchecked(colour_swatches, compare_swatches) ==
    IF compare_swatches # None
    THEN [raised |-> None,
          reference_colour_swatches |-> Slice2(colour_swatches, 0),
          test_colour_swatches |-> Slice2(colour_swatches, 1)]
    ELSE [raised |-> None,
          reference_colour_swatches |-> colour_swatches,
          test_colour_swatches |-> colour_swatches]

\* Lines 849-856: the reference and the test colour swatches.
pair_swatches(colour_swatches, compare_swatches) ==
    IF compare_swatches # None
    THEN IF Len(colour_swatches) % 2 # 0
         THEN [raised |-> Some("AssertionError"),
               reference_colour_swatches |-> << >>,
               test_colour_swatches |-> << >>]
         ELSE [raised |-> None,
               reference_colour_swatches |-> Slice2(colour_swatches, 0),
               test_colour_swatches |-> Slice2(colour_swatches, 1)]
    ELSE [raised |-> None,
          reference_colour_swatches |-> colour_swatches,
          test_colour_swatches |-> colour_swatches]

\* Lines 918-919: x_max.
swatch_x_max(colour_swatches, columns, width, spacing) ==
    LET x_max == Min(Len(colour_swatches), columns)
    IN  x_max * width + x_max * spacing - spacing

\* render(**d): the locals of render, with_boundaries and with_decorate
\* being True unless d gives them.
RenderFrame(d) ==
    [fn |-> "render",
     with_boundaries |->
       IF "with_boundaries" \in DOMAIN d THEN d.with_boundaries ELSE TRUE,
     with_decorate |->
       IF "with_decorate" \in DOMAIN d THEN d.with_decorate ELSE TRUE,
     kwargs |-> Without(d, {"with_boundaries", "with_decorate"})]

\* The innermost definition running.
Top == stack[Len(stack)]

\* The call of a definition with its keyword arguments and what it returned.
Called(fn, kwargs, returned) == [fn |-> fn, kwargs |-> kwargs, ret |-> returned]

\* Colour swatch i has the colour i; the odd ones are named.
ColourSwatch(i) ==
    [name |-> IF i % 2 = 1 THEN Some("swatch") ELSE None, RGB |-> i]

SwatchLists == {[i \in 1..n |-> ColourSwatch(i)] : n \in 1..MaxSwatches}

\* (width, height) and spacing of the swatches.
SwatchSizes == {<<Unit, Unit>>, <<2 * Unit, 3 * Unit>>}
Spacings == {0, Unit \div 2}
Columns == {None} \cup {Some(c) : c \in 1..MaxColumns}
Comparisons == {None, Some("Stacked"), Some("Diagonal")}
TextParameters == {None, Some([visible |-> FALSE])}

SwatchKwargs ==
    {NoKwargs,
     [standalone |-> FALSE, figure_size |-> <<8000, 8000>>],
     [with_decorate |-> FALSE, filename |-> Some("swatches.png")]}

\* Keyword arguments of boundaries, decorate and display.
Kwargs ==
    {NoKwargs,
     [standalone |-> FALSE],
     [filename |-> Some("figure.png")],
     [standalone |-> FALSE, filename |-> Some("figure.png"),
      tight_layout |-> TRUE],
     [standalone |-> TRUE, filename |-> None, transparent_background |-> TRUE],
     [x_tighten |-> TRUE, y_tighten |-> TRUE, standalone |-> FALSE],
     [x_tighten |-> TRUE, limits |-> <<0, 2 * Unit, -Unit, Unit>>,
      margins |-> <<-1, 1, -2, 2>>, title |-> Some("Title"), legend |-> TRUE],
     [y_tighten |-> TRUE, bounding_box |-> None,
      limits |-> <<0, 2 * Unit, -Unit, Unit>>, margins |-> <<-1, 1, -2, 2>>,
      x_ticker |-> FALSE, no_axes |-> TRUE, standalone |-> FALSE],
     [bounding_box |-> <<-Unit, 3 * Unit, -2 * Unit, 2 * Unit>>,
      x_tighten |-> TRUE, y_tighten |-> TRUE,
      limits |-> <<0, 2 * Unit, -Unit, Unit>>, margins |-> <<-1, 1, -2, 2>>,
      grid |-> TRUE, x_axis_line |-> TRUE, aspect |-> Some("equal"),
      standalone |-> FALSE],
     [bounding_box |-> <<0, Unit, 0, 2 * Unit>>]}

RenderFlags ==
    {NoKwargs, [with_boundaries |-> FALSE], [with_decorate |-> FALSE],
     [with_boundaries |-> FALSE, with_decorate |-> FALSE],
     [with_boundaries |-> TRUE, with_decorate |-> TRUE]}

Names ==
    {"sRGB", "ACES2065-1", "CIE 1931 2 Degree Standard Observer", "D65", "A",
     "srgb", ""}

\* The limits of the current axes before the call: never set, or set by an
\* earlier plot.
AxesLimits == {None, Some(<<-Unit, Unit>>)}

InitPlot ==
    /\ pc = [p \in {} |-> "idle"]
    /\ call = [p \in {} |-> NoCall]
    /\ arg = [p \in {} |-> Unbound]
    /\ loc = [p \in {} |-> NoLocals]
    /\ ret = [p \in {} |-> Unbound]
    /\ arg0 = [p \in {} |-> Unbound]
    /\ origin = [p \in {} |-> Unbound]
    /\ ppc = "idle"
    /\ pcall = NoFrame
    /\ stack = << >>
    /\ figure = NewFigure
    /\ \E l \in AxesLimits : axes = [NewAxes EXCEPT !.xlim = l, !.ylim = l]
    /\ registries = Registries
    /\ calls = << >>
    /\ pret = None
    /\ raised = None

\* boundaries(**kwargs) called from outside.
Boundaries ==
    /\ ppc = "idle"
    /\ \E kwargs \in Kwargs :
         /\ pcall' = [fn |-> "boundaries", kwargs |-> kwargs]
         /\ axes' = boundaries(axes, kwargs)
         /\ calls' = Append(calls, Called("boundaries", kwargs, Axes))
    /\ pret' = Axes
    /\ ppc' = "done"
    /\ UNCHANGED <<callvars, stack, figure, registries, raised>>

\* decorate(**kwargs) called from outside.
Decorate ==
    /\ ppc = "idle"
    /\ \E kwargs \in Kwargs :
         /\ pcall' = [fn |-> "decorate", kwargs |-> kwargs]
         /\ axes' = decorate(axes, kwargs)
         /\ calls' = Append(calls, Called("decorate", kwargs, Axes))
    /\ pret' = Axes
    /\ ppc' = "done"
    /\ UNCHANGED <<callvars, stack, figure, registries, raised>>

\* display(**kwargs) called from outside.
Display ==
    /\ ppc = "idle"
    /\ \E kwargs \in Kwargs :
         /\ pcall' = [fn |-> "display", kwargs |-> kwargs]
         /\ figure' = display(figure, kwargs).figure
         /\ pret' = display(figure, kwargs).ret
         /\ calls' = Append(calls, Called("display", kwargs,
                                          display(figure, kwargs).ret))
    /\ ppc' = "done"
    /\ UNCHANGED <<callvars, stack, axes, registries, raised>>

\* get_RGB_colourspace, get_cmfs or get_illuminant called from outside.
Lookup ==
    /\ ppc = "idle"
    /\ \E fn \in {"get_RGB_colourspace", "get_cmfs", "get_illuminant"},
          name \in Names :
         LET r == IF fn = "get_RGB_colourspace"
                  THEN get_RGB_colourspace(registries.RGB_COLOURSPACES, name)
                  ELSE IF fn = "get_cmfs"
                  THEN get_cmfs(registries.CMFS, name)
                  ELSE get_illuminant(registries.ILLUMINANTS_SPDS, name)
         IN  /\ pcall' = [fn |-> fn, name |-> name]
             /\ pret' = r.ret
             /\ raised' = r.raised
             /\ ppc' = IF r.raised = None THEN "done" ELSE "raised"
    /\ UNCHANGED <<callvars, stack, figure, axes, registries, calls>>

\* render(with_boundaries, with_decorate, **kwargs) called from outside.
Render ==
    /\ ppc = "idle"
    /\ \E kwargs \in Kwargs, flags \in RenderFlags :
         /\ pcall' = [fn |-> "render", kwargs |-> Update(kwargs, flags)]
         /\ stack' = <<RenderFrame(Update(kwargs, flags))>>
    /\ ppc' = "render"
    /\ UNCHANGED <<callvars, figure, axes, registries, calls, pret, raised>>

\* render calling boundaries whatever with_boundaries is.
RenderBoundaries_always ==
    /\ ppc = "render"
    /\ axes' = boundaries(axes, Top.kwargs)
    /\ calls' = Append(calls, Called("boundaries", Top.kwargs, Axes))
    /\ ppc' = "bounded"
    /\ UNCHANGED <<callvars, pcall, stack, figure, registries, pret, raised>>

\* Lines 557-558: if with_boundaries: boundaries(**kwargs)
RenderBoundaries ==
    /\ ppc = "render"
    /\ IF Top.with_boundaries
       THEN /\ axes' = boundaries(axes, Top.kwargs)
            /\ calls' = Append(calls, Called("boundaries", Top.kwargs, Axes))
       ELSE UNCHANGED <<axes, calls>>
    /\ ppc' = "bounded"
    /\ UNCHANGED <<callvars, pcall, stack, figure, registries, pret, raised>>

\* Lines 560-561: if with_decorate: decorate(**kwargs)
RenderDecorate ==
    /\ ppc = "bounded"
    /\ IF Top.with_decorate
       THEN /\ axes' = decorate(axes, Top.kwargs)
            /\ calls' = Append(calls, Called("decorate", Top.kwargs, Axes))
       ELSE UNCHANGED <<axes, calls>>
    /\ ppc' = "decorated"
    /\ UNCHANGED <<callvars, pcall, stack, figure, registries, pret, raised>>

\* Line 563: return display(**kwargs), to the outside (line 934 returns
\* what render returns).
RenderDisplay ==
    /\ ppc = "decorated"
    /\ LET r == display(figure, Top.kwargs)
       IN  /\ figure' = r.figure
           /\ pret' = r.ret
           /\ calls' = Append(calls, Called("display", Top.kwargs, r.ret))
    /\ stack' = << >>
    /\ ppc' = "done"
    /\ UNCHANGED <<callvars, pcall, axes, registries, raised>>

\* multi_colour_swatch_plot(colour_swatches, ...) called from outside, lines
\* 849-869.
MultiColourSwatchPlot ==
    /\ ppc = "idle"
    /\ \E colour_swatches \in SwatchLists, size \in SwatchSizes,
          spacing \in Spacings, columns \in Columns,
          text_parameters \in TextParameters,
          compare_swatches \in Comparisons, kwargs \in SwatchKwargs :
         LET paired == pair_swatches(colour_swatches, compare_swatches)
             text_settings ==
               IF text_parameters # None
               THEN Update([visible |-> TRUE, offset |-> 1], text_parameters[1])
               ELSE [visible |-> TRUE, offset |-> 1]
         IN  /\ pcall' = [fn |-> "multi_colour_swatch_plot",
                          colour_swatches |-> colour_swatches,
                          width |-> size[1], height |-> size[2],
                          spacing |-> spacing, columns |-> columns,
                          text_parameters |-> text_parameters,
                          background_colour |-> <<1, 1, 1>>,
                          compare_swatches |-> compare_swatches,
                          kwargs |-> kwargs]
             /\ IF paired.raised # None
                THEN /\ raised' = paired.raised
                     /\ ppc' = "raised"
                     /\ stack' = stack
                ELSE /\ raised' = raised
                     /\ ppc' = "paired"
                     /\ stack' =
                          <<[fn |-> "multi_colour_swatch_plot",
                             reference_colour_swatches |->
                               paired.reference_colour_swatches,
                             test_colour_swatches |-> paired.test_colour_swatches,
                             compare_swatches |-> str_lower(compare_swatches),
                             columns |->
                               IF columns = None
                               THEN Len(paired.reference_colour_swatches)
                               ELSE columns[1],
                             text_settings |-> Without(text_settings, {"offset"}),
                             text_offset |-> text_settings.offset,
                             offset_X |-> 0, offset_Y |-> 0, i |-> 0]>>
    /\ UNCHANGED <<callvars, figure, axes, registries, calls, pret>>

\* Lines 871-874: canvas(**kwargs)
SwatchCanvas ==
    /\ ppc = "paired"
    /\ figure' = canvas(figure, pcall.kwargs)
    /\ ppc' = "drawing"
    /\ UNCHANGED <<callvars, pcall, stack, axes, registries, calls, pret, raised>>

\* Lines 875-916: one pass of the loop, for the reference colour swatch i.
SwatchDraw ==
    /\ ppc = "drawing"
    /\ Top.i < Len(Top.reference_colour_swatches)
    /\ LET l == Top
           i == l.i
           width == pcall.width
           height == pcall.height
           spacing == pcall.spacing
           colour_swatch == l.reference_colour_swatches[i + 1]
           wrap == i % l.columns = 0 /\ i # 0
           offset_X == IF wrap THEN 0 ELSE l.offset_X
           offset_Y == IF wrap THEN l.offset_Y - (height + spacing) ELSE l.offset_Y
           x_0 == offset_X
           x_1 == offset_X + width
           y_0 == offset_Y
           y_1 == offset_Y + height
           margin_X == Quarter(width)
           margin_Y == Quarter(height)
           reference ==
             [xs |-> <<x_0, x_1, x_1, x_0>>, ys |-> <<y_0, y_0, y_1, y_1>>,
              color |-> colour_swatch.RGB]
           test ==
             IF l.compare_swatches = "stacked"
             THEN [xs |-> <<x_0 + margin_X, x_1 - margin_X,
                            x_1 - margin_X, x_0 + margin_X>>,
                   ys |-> <<y_0 + margin_Y, y_0 + margin_Y,
                            y_1 - margin_Y, y_1 - margin_Y>>,
                   color |-> l.test_colour_swatches[i + 1].RGB]
             ELSE [xs |-> <<x_0, x_1, x_1>>, ys |-> <<y_0, y_0, y_1>>,
                   color |-> l.test_colour_swatches[i + 1].RGB]
           text ==
             IF colour_swatch.name # None /\ l.text_settings.visible
             THEN <<[x |-> x_0 + l.text_offset, y |-> y_0 + l.text_offset,
                     s |-> colour_swatch.name[1], clip_on |-> TRUE,
                     kwargs |-> l.text_settings]>>
             ELSE << >>
       IN  /\ axes' = [axes EXCEPT !.fills = @ \o <<reference, test>>,
                                   !.texts = @ \o text]
           /\ stack' = <<[l EXCEPT !.offset_X = offset_X + width + spacing,
                                   !.offset_Y = offset_Y,
                                   !.i = i + 1]>>
    /\ UNCHANGED <<callvars, ppc, pcall, figure, registries, calls, pret, raised>>

\* Lines 918-934: the limits, the background and the call of render.
SwatchLimits ==
    /\ ppc = "drawing"
    /\ Top.i = Len(Top.reference_colour_swatches)
    /\ LET x_min == 0
           y_max == pcall.height
           x_max == swatch_x_max(pcall.colour_swatches, Top.columns,
                                 pcall.width, pcall.spacing)
           y_min == Top.offset_Y
           settings ==
             Update([x_tighten |-> TRUE, y_tighten |-> TRUE,
                     x_ticker |-> FALSE, y_ticker |-> FALSE,
                     limits |-> <<x_min, x_max, y_min, y_max>>,
                     aspect |-> Some("equal")], pcall.kwargs)
       IN  /\ axes' = [axes EXCEPT !.facecolor = Some(pcall.background_colour)]
           /\ stack' = Append(stack, RenderFrame(settings))
    /\ ppc' = "render"
    /\ UNCHANGED <<callvars, pcall, figure, registries, calls, pret, raised>>

NextPlot ==
    \/ Boundaries
    \/ Decorate
    \/ Display
    \/ Lookup
    \/ Render
    \/ RenderBoundaries
    \/ RenderDecorate
    \/ RenderDisplay
    \/ MultiColourSwatchPlot
    \/ SwatchCanvas
    \/ SwatchDraw
    \/ SwatchLimits

SpecPlot == InitPlot /\ [][NextPlot]_vars

----------------------------------------------------------------------------
(* Properties of the calls into colour/plotting/common.py.                 *)

\* The value of a keyword: the one given, the default without it.
Setting(kwargs, key, default) ==
    IF key \in DOMAIN kwargs THEN kwargs[key] ELSE default

\* The last call recorded.
LastCall(log) == log[Len(log)]

\* C12: render calls boundaries if and only if with_boundaries is true, then
\* decorate if and only if with_decorate is true, then always display, in
\* that order and each with the keyword arguments render was given, and
\* returns what display returned.
C12_RenderOrder ==
    [][/\ ppc = "render"
          => /\ ppc' = "bounded"
             /\ calls' = IF Top.with_boundaries
                         THEN Append(calls, Called("boundaries", Top.kwargs, Axes))
                         ELSE calls
       /\ ppc = "bounded"
          => /\ ppc' = "decorated"
             /\ calls' = IF Top.with_decorate
                         THEN Append(calls, Called("decorate", Top.kwargs, Axes))
                         ELSE calls
       /\ ppc = "decorated"
          => /\ ppc' = "done"
             /\ Len(calls') = Len(calls) + 1
             /\ SubSeq(calls', 1, Len(calls)) = calls
             /\ LastCall(calls').fn = "display"
             /\ LastCall(calls').kwargs = Top.kwargs
             /\ pret' = LastCall(calls').ret
       /\ ppc' \in {"bounded", "decorated"} => stack' = stack
       /\ ppc' = "bounded" => ppc = "render"
       /\ ppc' = "decorated" => ppc = "bounded"]_vars

\* render(with_boundaries=False, standalone=False, tight_layout=True,
\* filename='figure.png') has returned the figure after calling decorate and
\* then display, and nothing else, with the three other keywords.
C12_Witness ==
    /\ ppc = "done" /\ pcall.fn = "render"
    /\ ~Setting(pcall.kwargs, "with_boundaries", TRUE)
    /\ Len(calls) = 2
    /\ calls[1].fn = "decorate" /\ calls[2].fn = "display"
    /\ calls[1].kwargs = calls[2].kwargs
    /\ DOMAIN calls[1].kwargs = {"standalone", "filename", "tight_layout"}
    /\ pret = Figure /\ calls[2].ret = Figure

\* C13: when standalone is true, display saves the figure to filename if
\* filename is not None and shows it otherwise (one of the two, once), then
\* closes it, and returns None; when standalone is false the figure is
\* neither saved, shown nor closed and display returns the current figure.
\* (Nothing else saves, shows or closes the figure.)
C13_DisplayOutcome ==
    IF calls # << >> /\ LastCall(calls).fn = "display"
    THEN LET kwargs == LastCall(calls).kwargs
             filename == Setting(kwargs, "filename", None)
         IN  /\ ppc = "done"
             /\ pret = LastCall(calls).ret
             /\ IF Setting(kwargs, "standalone", TRUE)
                THEN /\ figure.events
                          = <<IF filename # None
                              THEN <<"savefig", filename[1]>> ELSE <<"show">>,
                              <<"close">>>>
                     /\ pret = None
                ELSE /\ figure.events = << >>
                     /\ pret = Figure
    ELSE figure.events = << >>

\* display(standalone=True, filename=None, transparent_background=True) has
\* shown and then closed the figure and returned None.
C13_Witness ==
    /\ ppc = "done" /\ pcall.fn = "display"
    /\ DOMAIN pcall.kwargs = {"standalone", "filename", "transparent_background"}
    /\ pcall.kwargs.standalone /\ pcall.kwargs.filename = None
    /\ figure.events = <<<<"show">>, <<"close">>>>
    /\ ~figure.patch_visible
    /\ pret = None

\* The registry a lookup definition reads.
RegistryOf(fn) ==
    IF fn = "get_RGB_colourspace" THEN registries.RGB_COLOURSPACES
    ELSE IF fn = "get_cmfs" THEN registries.CMFS
    ELSE registries.ILLUMINANTS_SPDS

IsLookup(fn) == fn \in {"get_RGB_colourspace", "get_cmfs", "get_illuminant"}

\* C14: get_RGB_colourspace, get_cmfs and get_illuminant return the
\* registered object when the name given is a key of their registry and
\* raise KeyError when it is not; the registries are never changed.
C14_RegistryLookup ==
    /\ registries = Registries
    /\ IsLookup(pcall.fn)
       => IF pcall.name \in DOMAIN RegistryOf(pcall.fn)
          THEN /\ ppc = "done" /\ raised = None
               /\ pret = Some(RegistryOf(pcall.fn)[pcall.name])
          ELSE /\ ppc = "raised" /\ raised = Some("KeyError")
               /\ pret = None

\* get_cmfs('D65') has raised KeyError: D65 is an illuminant, not a key of
\* CMFS.
C14_Witness ==
    /\ pcall.fn = "get_cmfs" /\ pcall.name = "D65"
    /\ ppc = "raised" /\ raised = Some("KeyError")
    /\ "D65" \in DOMAIN registries.ILLUMINANTS_SPDS
    /\ registries = Registries

IsSwatchPlot == pcall.fn = "multi_colour_swatch_plot"

\* The colours filled so far, in the order of the fills.
FilledColours == [k \in 1..Len(axes.fills) |-> axes.fills[k].color]

\* C15: when compare_swatches is not None, multi_colour_swatch_plot raises
\* an assertion error for an odd number of colour swatches before the figure
\* is sized and before anything is drawn; for an even number it raises
\* nothing and fills, pair after pair, the reference colour swatch at an
\* even index (0, 2, ...) and then the test colour swatch at the odd index
\* after it.
C15_ComparePrecondition ==
    (IsSwatchPlot /\ pcall.compare_swatches # None)
    => IF Len(pcall.colour_swatches) % 2 # 0
       THEN /\ ppc = "raised" /\ raised = Some("AssertionError")
            /\ figure = NewFigure
            /\ axes.fills = << >> /\ axes.texts = << >>
            /\ axes.facecolor = None
            /\ calls = << >> /\ pret = None
       ELSE /\ raised = None
            /\ Len(FilledColours) <= Len(pcall.colour_swatches)
            /\ \A k \in 1..Len(FilledColours) :
                 FilledColours[k] = pcall.colour_swatches[k].RGB
            /\ ppc \in {"render", "bounded", "decorated", "done"}
               => Len(FilledColours) = Len(pcall.colour_swatches)

\* multi_colour_swatch_plot of three colour swatches with
\* compare_swatches='Stacked' has raised an assertion error.
C15_Witness ==
    /\ IsSwatchPlot /\ pcall.compare_swatches = Some("Stacked")
    /\ Len(pcall.colour_swatches) = 3
    /\ ppc = "raised" /\ raised = Some("AssertionError")
    /\ axes.fills = << >>

\* C16: a call of boundaries with a bounding box sets the x limits to
\* (bounding_box[0], bounding_box[1]) and the y limits to (bounding_box[2],
\* bounding_box[3]) whatever limits, margins and the tighten flags are; a
\* call without one sets the x limits to (x limit min + x margin min,
\* x limit max + x margin max) if x_tighten is true and leaves them as they
\* were otherwise, and likewise the y limits with y_tighten.
C16_BoundariesPrecedence ==
    [][(Len(calls') = Len(calls) + 1 /\ LastCall(calls').fn = "boundaries")
       => LET kwargs == LastCall(calls').kwargs
              bb == Setting(kwargs, "bounding_box", None)
              l == Setting(kwargs, "limits", <<0, Unit, 0, Unit>>)
              m == Setting(kwargs, "margins", <<0, 0, 0, 0>>)
          IN  /\ axes'.xlim
                   = IF bb # None THEN Some(<<bb[1], bb[2]>>)
                     ELSE IF Setting(kwargs, "x_tighten", FALSE)
                     THEN Some(<<l[1] + m[1], l[2] + m[2]>>)
                     ELSE axes.xlim
              /\ axes'.ylim
                   = IF bb # None THEN Some(<<bb[3], bb[4]>>)
                     ELSE IF Setting(kwargs, "y_tighten", FALSE)
                     THEN Some(<<l[3] + m[3], l[4] + m[4]>>)
                     ELSE axes.ylim]_vars

\* boundaries has been called with a bounding box (-1, 3, -2, 2), both
\* tighten flags, limits and margins: the limits of the axes are those of
\* the bounding box.
C16_Witness ==
    /\ calls # << >> /\ calls[1].fn = "boundaries"
    /\ {"bounding_box", "x_tighten", "y_tighten", "limits", "margins"}
         \subseteq DOMAIN calls[1].kwargs
    /\ calls[1].kwargs.x_tighten /\ calls[1].kwargs.y_tighten
    /\ calls[1].kwargs.bounding_box = <<-Unit, 3 * Unit, -2 * Unit, 2 * Unit>>
    /\ axes.xlim = Some(<<-Unit, 3 * Unit>>)
    /\ axes.ylim = Some(<<-2 * Unit, 2 * Unit>>)

\* The largest and the smallest of a set of numbers.
Largest(S) == CHOOSE m \in S : \A x \in S : x <= m
Smallest(S) == CHOOSE m \in S : \A x \in S : m <= x

\* The right edge of the rightmost and the bottom edge of the lowest of the
\* fills.
RightEdge(fills) ==
    Largest({fills[k].xs[j] : k \in 1..Len(fills), j \in 1..3})
BottomEdge(fills) ==
    Smallest({fills[k].ys[j] : k \in 1..Len(fills), j \in 1..3})

\* C20: the limits multi_colour_swatch_plot hands to render are
\* (0, x_max, y_min, height), where x_max is the right edge of the rightmost
\* swatch drawn, which is n * width + (n - 1) * spacing for n the smaller of
\* the number of reference colour swatches drawn and columns, and y_min is
\* the bottom edge of the lowest row drawn.
C20_SwatchLimits ==
    (IsSwatchPlot /\ ppc \in {"render", "bounded", "decorated"})
    => LET n == Min(Len(stack[1].reference_colour_swatches), stack[1].columns)
       IN  /\ Top.kwargs.limits
                = <<0, RightEdge(axes.fills), BottomEdge(axes.fills), pcall.height>>
           /\ RightEdge(axes.fills) = n * pcall.width + (n - 1) * pcall.spacing

----------------------------------------------------------------------------
(* Extended-precision decimal arithmetic, for the reference values of the  *)
(* doctests: a number is a sign and a natural number of units of           *)
(* 1/1000^DecLimbs, written in base 1000 with the least significant limb   *)
(* first and no leading zero limb (zero is the empty sequence).  Products   *)
(* and quotients are truncated towards zero.  The functions are computed    *)
(* by the series of the fixed-point arithmetic above, on arguments reduced  *)
(* further, each series being summed until its terms vanish.                *)

\* Limbs after the decimal point: units of 10^-15.
DecLimbs == 5
Limb == 10^3

\* Limb i of a, 0 outside 1..Len(a).
NatLimb(a, i) == IF i \in 1..Len(a) THEN a[i] ELSE 0

\* a without its leading zero limbs.
NatNorm(a) ==
    LET n == IF \A i \in 1..Len(a) : a[i] = 0 THEN 0
             ELSE CHOOSE i \in 1..Len(a) :
                      a[i] # 0 /\ \A j \in (i + 1)..Len(a) : a[j] = 0
    IN  SubSeq(a, 1, n)

\* -1, 0 or 1 as a < b, a = b or a > b.
NatCmp(a, b) ==
    IF Len(a) < Len(b) THEN -1
    ELSE IF Len(a) > Len(b) THEN 1
    ELSE IF a = b THEN 0
    ELSE LET i == CHOOSE i \in 1..Len(a) :
                      a[i] # b[i] /\ \A j \in (i + 1)..Len(a) : a[j] = b[j]
         IN  IF a[i] < b[i] THEN -1 ELSE 1

\* The sequence of the values of a function on 1..n.
AsSeq(f) == SubSeq(f, 1, Len(f))

\* Limbs w up to Limb + 1: a carry enters limb k where a limb below it
\* overflows and the limbs between are full.
NatCarryOnes(w) ==
    NatNorm([k \in 1..Len(w) |->
                (w[k] + (IF \E j \in 1..(k - 1) :
                               w[j] >= Limb /\ \A i \in (j + 1)..(k - 1) : w[i] = Limb - 1
                         THEN 1 ELSE 0)) % Limb])

\* Limbs v below Limb^2: each keeps its low limb and takes the carry of the
\* limb below it.
NatCarryLimbs(v) ==
    NatCarryOnes(AsSeq([k \in 1..(Len(v) + 1) |->
                           (NatLimb(v, k) % Limb) + (NatLimb(v, k - 1) \div Limb)]))

\* The number whose limbs, before the carries, are the columns c, each
\* below Limb^3: the three limbs of every column are spread over three
\* limbs, which leaves limbs below 3 * Limb.
NatCarry(c) ==
    NatCarryLimbs(AsSeq([k \in 1..(Len(c) + 2) |->
                            (NatLimb(c, k) % Limb)
                            + ((NatLimb(c, k - 1) \div Limb) % Limb)
                            + (NatLimb(c, k - 2) \div (Limb * Limb))]))

NatAdd(a, b) ==
    IF a = << >> THEN b
    ELSE IF b = << >> THEN a
    ELSE NatCarry(AsSeq([k \in 1..(IF Len(a) < Len(b) THEN Len(b) ELSE Len(a)) |->
                       NatLimb(a, k) + NatLimb(b, k)]))

\* The number of the limb differences d, which is not negative: a borrow
\* enters limb k where a limb below it is negative and the limbs between are
\* zero.
NatBorrow(d) ==
    NatNorm([k \in 1..Len(d) |->
                (d[k] - (IF \E j \in 1..(k - 1) :
                               d[j] < 0 /\ \A i \in (j + 1)..(k - 1) : d[i] = 0
                         THEN 1 ELSE 0)) % Limb])

\* a - b for a >= b.
NatSub(a, b) ==
    IF a = b THEN << >>
    ELSE NatBorrow(AsSeq([k \in 1..Len(a) |-> a[k] - NatLimb(b, k)]))

\* a * k for an integer 0 <= k <= 10^6.
NatMulSmall(a, k) ==
    IF a = << >> \/ k = 0 THEN << >>
    ELSE NatCarry(AsSeq([i \in 1..Len(a) |-> a[i] * k]))

\* a * 1000^n
NatShift(a, n) == IF a = << >> THEN a ELSE AsSeq([i \in 1..n |-> 0]) \o a

\* The sum of a[i] * b[k + 1 - i] over the limbs 1..i of a.
RECURSIVE NatColumn(_, _, _, _)
NatColumn(a, b, k, i) ==
    IF i = 0 THEN 0
    ELSE NatLimb(a, i) * NatLimb(b, k + 1 - i) + NatColumn(a, b, k, i - 1)

\* a * b for a and b of no more than 2000 limbs (a column is below Limb^3).
NatMul(a, b) ==
    IF a = << >> \/ b = << >> THEN << >>
    ELSE NatCarry(AsSeq([k \in 1..(Len(a) + Len(b)) |-> NatColumn(a, b, k, Len(a))]))

Reverse(s) == AsSeq([i \in 1..Len(s) |-> s[Len(s) + 1 - i]])

\* The limbs i + 1, i, ..., 1 of a \div k, the most significant first and two
\* at a time, for an odd i and an integer 0 < k <= 2000; r is the remainder
\* of the limbs above i + 1.
RECURSIVE NatDivSmallAt(_, _, _, _)
NatDivSmallAt(a, k, i, r) ==
    IF i < 1 THEN << >>
    ELSE LET cur == (r * Limb + NatLimb(a, i + 1)) * Limb + NatLimb(a, i)
         IN  <<(cur \div k) \div Limb, (cur \div k) % Limb>>
             \o NatDivSmallAt(a, k, i - 2, cur % k)

\* a \div k for an integer 0 < k <= 2000.
NatDivSmall(a, k) ==
    IF a = << >> THEN a
    ELSE NatNorm(Reverse(NatDivSmallAt(a, k, 2 * ((Len(a) + 1) \div 2) - 1, 0)))

\* The limbs of a from limb i up, as an integer (three limbs at most).
NatTop(a, i) == NatLimb(a, i) + NatLimb(a, i + 1) * Limb + NatLimb(a, i + 2) * Limb * Limb

\* The limbs i and i + 1 of a, as an integer.
NatPair(a, i) == NatLimb(a, i) + NatLimb(a, i + 1) * Limb

\* The lower of the two leading limbs of b (the only limb of a b below Limb).
NatLead(b) == IF Len(b) = 1 THEN 1 ELSE Len(b) - 1

\* cur \div b, which is est or just below it.
QuotientNear(cur, b, est) ==
    CHOOSE q \in (IF est < 3 THEN 0 ELSE est - 3)..(IF est < Limb THEN est ELSE Limb - 1) :
        /\ NatCmp(NatMulSmall(b, q), cur) <= 0
        /\ NatCmp(NatMulSmall(b, q + 1), cur) > 0

\* cur \div b for 0 < b and cur < b * Limb: the quotient of the leading limbs
\* of cur by the two leading limbs of b is the quotient or just above it.
QuotientLimb(cur, b) ==
    QuotientNear(cur, b, NatTop(cur, NatLead(b)) \div NatTop(b, NatLead(b)))

RECURSIVE NatDivAt(_, _, _, _)

\* Limb i of a \div b is q, and the limbs below it follow.
NatDivNext(a, b, i, cur, q) ==
    <<q>> \o NatDivAt(a, b, i - 1, NatSub(cur, NatMulSmall(b, q)))

\* The limbs i..1 of a \div b, where cur is limb i of a under the remainder of
\* the limbs above it.
NatDivLimb(a, b, i, cur) ==
    IF NatCmp(cur, b) < 0 THEN <<0>> \o NatDivAt(a, b, i - 1, cur)
    ELSE NatDivNext(a, b, i, cur, QuotientLimb(cur, b))

\* The limbs i..1 of a \div b (long division), the most significant first;
\* r is the remainder of the limbs above i.
NatDivAt(a, b, i, r) ==
    IF i = 0 THEN << >>
    ELSE NatDivLimb(a, b, i, NatNorm(<<a[i]>> \o r))

\* The limbs of a \div b from limb i down; the limbs of a above i are below b.
NatDivFrom(a, b, i) == NatNorm(Reverse(NatDivAt(a, b, i, SubSeq(a, i + 1, Len(a)))))

\* a \div b for b > 0: the Len(b) - 1 leading limbs of a are below b.
NatDiv(a, b) ==
    IF Len(a) < Len(b) THEN << >>
    ELSE NatDivFrom(a, b, Len(a) - Len(b) + 1)

\* (b + d) * d
RootTimes(b, d) == NatMulSmall(NatAdd(b, NatCarry(<<d>>)), d)

\* The largest d with (b + d) * d <= cur, which is est or just below it.
RootNear(cur, b, est) ==
    CHOOSE d \in (IF est < 4 THEN 0 ELSE est - 4)..(IF est < Limb THEN est ELSE Limb - 1) :
        /\ NatCmp(RootTimes(b, d), cur) <= 0
        /\ NatCmp(RootTimes(b, d + 1), cur) > 0

\* The next limb of a root of two limbs or more, b being twice the root
\* times Limb: it is just below cur \div b.
RootLimb(cur, b) ==
    RootNear(cur, b, NatTop(cur, Len(b) - 1) \div NatTop(b, Len(b) - 1))

RECURSIVE NatSqrtAt(_, _, _, _)

\* The next limb of the root is d.
NatSqrtNext(n, i, root, cur, b, d) ==
    IF d = 0 THEN NatSqrtAt(n, i - 2, <<0>> \o root, cur)
    ELSE NatSqrtAt(n, i - 2, <<d>> \o root, NatSub(cur, RootTimes(b, d)))

NatSqrtLimb(n, i, root, cur, b) == NatSqrtNext(n, i, root, cur, b, RootLimb(cur, b))

\* The integer square root of n, two limbs of n for a limb of the root, as
\* in long division: root is the root of the limbs above i + 1 and r what
\* they leave; the next limb d of the root is the largest with
\* (2 * root * Limb + d) * d <= cur, where cur is r followed by the limbs
\* i + 1 and i.
NatSqrtAt(n, i, root, r) ==
    IF i < 1 THEN root
    ELSE NatSqrtLimb(n, i, root, NatNorm(<<NatLimb(n, i), NatLimb(n, i + 1)>> \o r),
                     NatShift(NatMulSmall(root, 2), 1))

\* The largest d with d * d <= t, for t < Limb^2.
RootOfPair(t) == CHOOSE d \in 0..(Limb - 1) : d * d <= t /\ t < (d + 1) * (d + 1)

\* The largest d with (2 * d1 * Limb + d) * d <= cur.
RootOfSecond(d1, cur) ==
    CHOOSE d \in 0..(Limb - 1) :
        /\ (2 * d1 * Limb + d) * d <= cur
        /\ cur < (2 * d1 * Limb + d + 1) * (d + 1)

\* The first two limbs d1 and d2 of the root are known.
NatSqrtThird(n, i, d1, cur, d2) ==
    NatSqrtAt(n, i - 4, <<d2, d1>>, NatCarry(<<cur - (2 * d1 * Limb + d2) * d2>>))

\* The first limb d1 of the root is known; cur is what it leaves followed by
\* the next two limbs.
NatSqrtSecond(n, i, d1, cur) == NatSqrtThird(n, i, d1, cur, RootOfSecond(d1, cur))

NatSqrtFirst(n, i, d1) ==
    IF i = 1 THEN <<d1>>
    ELSE NatSqrtSecond(n, i, d1, (NatPair(n, i) - d1 * d1) * Limb * Limb + NatPair(n, i - 2))

\* The integer square root of n, whose leading limbs are i and i + 1: the
\* first two limbs of the root are found among the integers below Limb, the
\* others by NatSqrtAt.
NatSqrtFrom(n, i) == NatSqrtFirst(n, i, RootOfPair(NatPair(n, i)))

NatSqrt(n) ==
    IF n = << >> THEN n
    ELSE NatSqrtFrom(n, 2 * ((Len(n) + 1) \div 2) - 1)

\* Signed numbers.
Dec(neg, mag) == [neg |-> neg /\ mag # << >>, mag |-> mag]

\* The number whose integer part is int and whose decimals are, three by
\* three, the elements of decimals (DecLimbs of them at most):
\* Decimal(-1, 37, <<985, 629, 100, 0, 0>>) is -37.985629100000000.
Decimal(sign, int, decimals) ==
    Dec(sign < 0,
        NatNorm(AsSeq([i \in 1..(DecLimbs - Len(decimals)) |-> 0])
                \o Reverse(<<int>> \o decimals)))

DecZero == Dec(FALSE, << >>)
DecOne == Decimal(1, 1, <<0, 0, 0, 0, 0>>)

DecNeg(x) == Dec(~x.neg, x.mag)
DecAbs(x) == Dec(FALSE, x.mag)

\* -1, 0 or 1 as x < y, x = y or x > y.
DecCmp(x, y) ==
    IF x.neg # y.neg THEN (IF x.neg THEN -1 ELSE 1)
    ELSE IF x.neg THEN NatCmp(y.mag, x.mag)
    ELSE NatCmp(x.mag, y.mag)

DecAdd(x, y) ==
    IF x.neg = y.neg THEN Dec(x.neg, NatAdd(x.mag, y.mag))
    ELSE IF NatCmp(x.mag, y.mag) >= 0 THEN Dec(x.neg, NatSub(x.mag, y.mag))
    ELSE Dec(y.neg, NatSub(y.mag, x.mag))

DecSub(x, y) == DecAdd(x, DecNeg(y))

\* The limbs of a above the lowest n.
NatDrop(a, n) == SubSeq(a, n + 1, Len(a))

DecMul(x, y) == Dec(x.neg # y.neg, NatDrop(NatMul(x.mag, y.mag), DecLimbs))

\* x / y for y # 0.
DecDiv(x, y) == Dec(x.neg # y.neg, NatDiv(NatShift(x.mag, DecLimbs), y.mag))

\* x * n for an integer |n| <= 10^6 and x / n for an integer 0 < |n| <= 2000.
DecMulI(x, n) == Dec(x.neg # (n < 0), NatMulSmall(x.mag, IF n < 0 THEN -n ELSE n))
DecDivI(x, n) == Dec(x.neg # (n < 0), NatDivSmall(x.mag, IF n < 0 THEN -n ELSE n))

\* sqrt(x) for x >= 0.
DecSqrt(x) == Dec(FALSE, NatSqrt(NatShift(x.mag, DecLimbs)))

\* ln 2, pi, pi / 2, sqrt(2) and sqrt(1/2).
DecLN2 == Decimal(1, 0, <<693, 147, 180, 559, 945>>)
DecPI == Decimal(1, 3, <<141, 592, 653, 589, 793>>)
DecHALFPI == Decimal(1, 1, <<570, 796, 326, 794, 897>>)
DecSQRT2 == Decimal(1, 1, <<414, 213, 562, 373, 95>>)
DecSQRT1_2 == Decimal(1, 0, <<707, 106, 781, 186, 548>>)

\* Halve m until it is below sqrt(2), counting the halvings in k.
RECURSIVE DecLnReduceDown(_, _)
DecLnReduceDown(m, k) ==
    IF DecCmp(m, DecSQRT2) >= 0 THEN DecLnReduceDown(DecDivI(m, 2), k + 1)
    ELSE <<m, k>>

\* Double m until it is at least sqrt(1/2), counting the doublings in k.
RECURSIVE DecLnReduceUp(_, _)
DecLnReduceUp(m, k) ==
    IF DecCmp(m, DecSQRT1_2) < 0 THEN DecLnReduceUp(DecMulI(m, 2), k - 1)
    ELSE <<m, k>>

\* z + z^3/3 + z^5/5 + ..., until the power of z vanishes: s is the power
\* z^n and the sum of the terms before it.
RECURSIVE DecAtanhSeries(_, _, _)
DecAtanhSeries(s, z2, n) ==
    IF s[1] = DecZero THEN s[2]
    ELSE DecAtanhSeries(<<DecMul(s[1], z2), DecAdd(s[2], DecDivI(s[1], n))>>, z2, n + 2)

\* 2 atanh(z) + k ln 2
DecLnSeries(z, k) ==
    DecAdd(DecMulI(DecAtanhSeries(<<z, DecZero>>, DecMul(z, z), 1), 2),
           DecMulI(DecLN2, k))

\* ln(m * 2^k) for mk = <<m, k>>: ln m = 2 atanh((m-1)/(m+1)).
DecLnReduced(mk) ==
    DecLnSeries(DecDiv(DecSub(mk[1], DecOne), DecAdd(mk[1], DecOne)), mk[2])

\* ln(x) for x > 0: x = m * 2^k with sqrt(1/2) <= m < sqrt(2).
DecLn(x) ==
    DecLnReduced(IF DecCmp(x, DecOne) >= 0 THEN DecLnReduceDown(x, 0)
                 ELSE DecLnReduceUp(x, 0))

\* 1 + r + r^2/2! + ..., until the term vanishes: s is the term r^(n-1)/(n-1)!
\* and the sum of the terms before it.
RECURSIVE DecExpSeries(_, _, _)
DecExpSeries(s, r, n) ==
    IF s[1] = DecZero THEN s[2]
    ELSE DecExpSeries(<<DecDivI(DecMul(s[1], r), n), DecAdd(s[2], s[1])>>, r, n + 1)

\* The integer part of a number below 1000, with its sign.
DecInt(x) ==
    IF Len(x.mag) <= DecLimbs THEN 0
    ELSE IF x.neg THEN -x.mag[DecLimbs + 1] ELSE x.mag[DecLimbs + 1]

\* The integer nearest to x / ln 2.
DecExpShift(x) == DecInt(DecDiv(DecAdd(DecMulI(x, 2), Dec(x.neg, DecLN2.mag)),
                                DecMulI(DecLN2, 2)))

DecSquare(q) == DecMul(q, q)

\* s * 2^k, for -11 < k < 20.
DecScale2(s, k) == IF k >= 0 THEN DecMulI(s, 2 ^ k) ELSE DecDivI(s, 2 ^ (-k))

\* exp(x) with x = k ln 2 + r: exp(x) = 2^k exp(r / 4)^4.
DecExpShifted(x, k) ==
    DecScale2(DecSquare(DecSquare(DecExpSeries(<<DecOne, DecZero>>,
                                               DecDivI(DecSub(x, DecMulI(DecLN2, k)), 4),
                                               1))),
              k)

\* exp(x) for -7 < x < 20.
DecExp(x) == IF x = DecZero THEN DecOne ELSE DecExpShifted(x, DecExpShift(x))

\* Alternating series t - t x^2/((n-1) n) + ..., until the term vanishes:
\* s is the term before index n and the sum of the terms before it.
RECURSIVE DecTrigSeries(_, _, _)
DecTrigSeries(s, x2, n) ==
    IF s[1] = DecZero THEN s[2]
    ELSE DecTrigSeries(<<DecNeg(DecDivI(DecMul(s[1], x2), (n - 1) * n)), DecAdd(s[2], s[1])>>,
                       x2, n + 2)

DecSinSeries(x) == DecTrigSeries(<<x, DecZero>>, DecMul(x, x), 3)
DecCosSeries(x) == DecTrigSeries(<<DecOne, DecZero>>, DecMul(x, x), 2)

\* The angle in [-pi/2, pi/2] with the sine of x, for -pi <= x <= pi.
DecSinFold(x) ==
    IF DecCmp(x, DecHALFPI) > 0 THEN DecSub(DecPI, x)
    ELSE IF DecCmp(x, DecNeg(DecHALFPI)) < 0 THEN DecSub(DecNeg(DecPI), x)
    ELSE x

\* sin and cos for -pi <= x <= pi.
DecSin(x) == DecSinSeries(DecSinFold(x))

\* cos(ax) for 0 <= ax <= pi.
DecCosAbs(ax) ==
    IF DecCmp(ax, DecHALFPI) > 0 THEN DecNeg(DecCosSeries(DecSub(DecPI, ax)))
    ELSE DecCosSeries(ax)

DecCos(x) == DecCosAbs(DecAbs(x))

\* u - u^3/3 + u^5/5 - ..., until the power of u vanishes: s is the power
\* u^n and the sum of the terms before it, sg the sign of the term of u^n.
RECURSIVE DecAtanSeries(_, _, _, _)
DecAtanSeries(s, u2, n, sg) ==
    IF s[1] = DecZero THEN s[2]
    ELSE DecAtanSeries(<<DecMul(s[1], u2), DecAdd(s[2], DecDivI(s[1], sg * n))>>,
                       u2, n + 2, -sg)

\* The tangent of half the angle of tangent t: t / (1 + sqrt(1 + t^2)).
DecTanHalf(t) ==
    IF t = DecZero THEN t
    ELSE DecDiv(t, DecAdd(DecOne, DecSqrt(DecAdd(DecOne, DecMul(t, t)))))

\* 4 atan(u)
DecAtanQuarter(u) == DecMulI(DecAtanSeries(<<u, DecZero>>, DecMul(u, u), 1, 1), 4)

\* atan(t) for 0 <= t <= 1, as 4 atan(u) with u the tangent of a quarter of
\* the angle.
DecAtan(t) == DecAtanQuarter(DecTanHalf(DecTanHalf(t)))

\* atan(ay / ax) in [0, pi/2] for ax, ay >= 0, not both 0.
DecAtanOctant(ay, ax) ==
    IF DecCmp(ay, ax) <= 0 THEN DecAtan(DecDiv(ay, ax))
    ELSE DecSub(DecHALFPI, DecAtan(DecDiv(ax, ay)))

\* v, negated if neg.
DecSigned(neg, v) == IF neg THEN DecNeg(v) ELSE v

\* The angle in (-pi, pi] of the point (x, y), from the angle th in
\* [0, pi/2] of (|x|, |y|).
DecAtan2Quadrant(y, x, th) ==
    DecSigned(y.neg, IF x.neg THEN DecSub(DecPI, th) ELSE th)

\* atan2(y, x) in (-pi, pi]; atan2(0, 0) = 0.
DecAtan2(y, x) ==
    IF x = DecZero /\ y = DecZero
    THEN DecZero
    ELSE DecAtan2Quadrant(y, x, DecAtanOctant(DecAbs(y), DecAbs(x)))

\* np.radians(d) for an integer d.
DecRadians(d) == DecDivI(DecMulI(DecPI, d), 180)


----------------------------------------------------------------------------
(* Lab_to_DIN99 and DIN99_to_Lab in the extended-precision arithmetic, for  *)
(* one Lab (DIN99) triple: L, a, b and the other locals are numbers.        *)

\* 0.045, 0.0158, 105.509 and 0.7
Dec_0_045 == Decimal(1, 0, <<45, 0, 0, 0, 0>>)
Dec_0_0158 == Decimal(1, 0, <<15, 800, 0, 0, 0>>)
Dec_105_509 == Decimal(1, 105, <<509, 0, 0, 0, 0>>)
Dec_0_7 == Decimal(1, 0, <<700, 0, 0, 0, 0>>)

\* cos_16 = np.cos(np.radians(16)); sin_16 = np.sin(np.radians(16))
cos_16_Dec == DecCos(DecRadians(DEG_16))
sin_16_Dec == DecSin(DecRadians(DEG_16))

\* e = cos_16 * a + sin_16 * b
Fwd_e_Dec(a, b) == DecAdd(DecMul(cos_16_Dec, a), DecMul(sin_16_Dec, b))

\* Fwd_f_Dec without the factor 0.7.
Fwd_f_Dec_unscaled(a, b) ==
    DecAdd(DecMul(DecNeg(sin_16_Dec), a), DecMul(cos_16_Dec, b))

\* f = 0.7 * (-sin_16 * a + cos_16 * b)
Fwd_f_Dec(a, b) ==
    DecMul(Dec_0_7, DecAdd(DecMul(DecNeg(sin_16_Dec), a), DecMul(cos_16_Dec, b)))

\* G = (e ** 2 + f ** 2) ** 0.5
Fwd_G_Dec(e, f) == DecSqrt(DecAdd(DecMul(e, e), DecMul(f, f)))

\* h_ef = np.arctan2(f, e)
Fwd_h_ef_Dec(e, f) == DecAtan2(f, e)

\* C_99 = (np.log(1 + 0.045 * G)) / (0.045 * k_CH * k_E)
Fwd_C_99_Dec(G, k_E, k_CH) ==
    DecDiv(DecLn(DecAdd(DecOne, DecMul(Dec_0_045, G))),
           DecMul(DecMul(Dec_0_045, k_CH), k_E))

\* a_99 = C_99 * np.cos(h_ef)
Fwd_a_99_Dec(C_99, h_ef) == DecMul(C_99, DecCos(h_ef))

\* b_99 = C_99 * np.sin(h_ef)
Fwd_b_99_Dec(C_99, h_ef) == DecMul(C_99, DecSin(h_ef))

\* L_99 = 105.509 * (np.log(1 + 0.0158 * L)) * k_E
Fwd_L_99_Dec(L, k_E) ==
    DecMul(DecMul(Dec_105_509, DecLn(DecAdd(DecOne, DecMul(Dec_0_0158, L)))), k_E)

\* h_99 = np.arctan2(b_99, a_99)
Inv_h_99_Dec(a_99, b_99) == DecAtan2(b_99, a_99)

\* C_99 = np.sqrt(a_99 ** 2 + b_99 ** 2)
Inv_C_99_Dec(a_99, b_99) == DecSqrt(DecAdd(DecMul(a_99, a_99), DecMul(b_99, b_99)))

\* G = (np.exp(0.045 * C_99 * k_CH * k_E) - 1) / 0.045
Inv_G_Dec(C_99, k_E, k_CH) ==
    DecDiv(DecSub(DecExp(DecMul(DecMul(DecMul(Dec_0_045, C_99), k_CH), k_E)), DecOne),
           Dec_0_045)

\* e = G * np.cos(h_99)
Inv_e_Dec(G, h_99) == DecMul(G, DecCos(h_99))

\* f = G * np.sin(h_99)
Inv_f_Dec(G, h_99) == DecMul(G, DecSin(h_99))

\* a = e * cos_16 - (f / 0.7) * sin_16
Inv_a_Dec(e, f) ==
    DecSub(DecMul(e, cos_16_Dec), DecMul(DecDiv(f, Dec_0_7), sin_16_Dec))

\* b = e * sin_16 + (f / 0.7) * cos_16
Inv_b_Dec(e, f) ==
    DecAdd(DecMul(e, sin_16_Dec), DecMul(DecDiv(f, Dec_0_7), cos_16_Dec))

\* L = (np.exp(L_99 * k_E / 105.509) - 1) / 0.0158
Inv_L_Dec(L_99, k_E) ==
    DecDiv(DecSub(DecExp(DecDiv(DecMul(L_99, k_E), Dec_105_509)), DecOne),
           Dec_0_0158)

----------------------------------------------------------------------------
(* Calls on single triples in the extended-precision arithmetic.  The       *)
(* caller's array has shape (3,); the locals are numbers.                   *)

Triple_Dec(L, a, b) == Arr(<<3>>, <<L, a, b>>)

\* Lab = np.array([37.98562910, -23.62907688, -4.41746615])
RefLab ==
    Triple_Dec(Decimal(1, 37, <<985, 629, 100, 0, 0>>),
               Decimal(-1, 23, <<629, 76, 880, 0, 0>>),
               Decimal(-1, 4, <<417, 466, 150, 0, 0>>))

\* Lab_99 = np.array([49.60101649, -16.2314573, 1.07618123])
RefDIN99 ==
    Triple_Dec(Decimal(1, 49, <<601, 16, 490, 0, 0>>),
               Decimal(-1, 16, <<231, 457, 300, 0, 0>>),
               Decimal(1, 1, <<76, 181, 230, 0, 0>>))

\* The same triple with a_99 = -16.23145729.
RefDIN99_29 ==
    Triple_Dec(Decimal(1, 49, <<601, 16, 490, 0, 0>>),
               Decimal(-1, 16, <<231, 457, 290, 0, 0>>),
               Decimal(1, 1, <<76, 181, 230, 0, 0>>))

\* Lab triples: the reference triple, the triple the doctest of DIN99_to_Lab
\* prints (seven decimals), and triples over the range of L, a and b.
RefLabTriples ==
    {RefLab,
     Triple_Dec(Decimal(1, 37, <<985, 629, 100, 0, 0>>),
                Decimal(-1, 23, <<629, 76, 800, 0, 0>>),
                Decimal(-1, 4, <<417, 466, 100, 0, 0>>)),
     Triple_Dec(Decimal(1, 50, <<0, 0, 0, 0, 0>>), DecZero, DecZero),
     Triple_Dec(Decimal(1, 100, <<0, 0, 0, 0, 0>>),
                Decimal(1, 20, <<0, 0, 0, 0, 0>>),
                Decimal(-1, 12, <<500, 0, 0, 0, 0>>)),
     Triple_Dec(DecZero, Decimal(-1, 12, <<500, 0, 0, 0, 0>>),
                Decimal(1, 20, <<0, 0, 0, 0, 0>>)),
     Triple_Dec(Decimal(1, 75, <<500, 0, 0, 0, 0>>),
                Decimal(1, 40, <<250, 0, 0, 0, 0>>),
                Decimal(1, 30, <<0, 0, 0, 0, 0>>)),
     Triple_Dec(Decimal(1, 20, <<0, 0, 0, 0, 0>>),
                Decimal(-1, 30, <<0, 0, 0, 0, 0>>),
                Decimal(-1, 40, <<0, 0, 0, 0, 0>>)),
     Triple_Dec(Decimal(1, 60, <<0, 0, 0, 0, 0>>),
                Decimal(1, 0, <<500, 0, 0, 0, 0>>),
                Decimal(1, 0, <<250, 0, 0, 0, 0>>)),
     Triple_Dec(Decimal(1, 90, <<0, 0, 0, 0, 0>>),
                Decimal(-1, 5, <<0, 0, 0, 0, 0>>),
                Decimal(1, 60, <<0, 0, 0, 0, 0>>)),
     Triple_Dec(Decimal(1, 10, <<0, 0, 0, 0, 0>>),
                Decimal(1, 15, <<0, 0, 0, 0, 0>>),
                Decimal(-1, 2, <<0, 0, 0, 0, 0>>))}

\* DIN99 triples passed to DIN99_to_Lab directly: the two reference triples,
\* the triple the doctest of Lab_to_DIN99 prints (seven decimals), and zero.
RefDIN99Triples ==
    {RefDIN99, RefDIN99_29,
     Triple_Dec(Decimal(1, 49, <<601, 16, 400, 0, 0>>),
                Decimal(-1, 16, <<231, 457, 300, 0, 0>>),
                Decimal(1, 1, <<76, 181, 200, 0, 0>>)),
     Triple_Dec(DecZero, DecZero, DecZero)}

\* The calls a caller makes, with the default factors k_E=1, k_CH=1.
RefCalls ==
    [fn : {"Lab_to_DIN99"}, arg : RefLabTriples, k_E : {DecOne}, k_CH : {DecOne}]
    \cup [fn : {"DIN99_to_Lab"}, arg : RefDIN99Triples, k_E : {DecOne}, k_CH : {DecOne}]

InitRef ==
    /\ pc = [p \in {1} |-> "idle"]
    /\ call = [p \in {1} |-> [fn |-> "none", k_E |-> DecOne, k_CH |-> DecOne]]
    /\ arg = [p \in {1} |-> Unbound]
    /\ loc = [p \in {1} |-> NoLocals]
    /\ ret = [p \in {1} |-> Unbound]
    /\ arg0 = [p \in {1} |-> Unbound]
    /\ origin = [p \in {1} |-> Unbound]
    /\ NoPlotting

CallRef(p) ==
    /\ pc[p] = "idle"
    /\ \E c \in RefCalls : Enter(p, c, Unbound)

\* L, a, b = tsplit(Lab) / L_99, a_99, b_99 = tsplit(Lab_99)
SplitRef(p) ==
    /\ pc[p] = "called"
    /\ pc' = [pc EXCEPT ![p] = "split"]
    /\ LET s == arg[p].data
       IN  loc' = [loc EXCEPT ![p] =
                     IF call[p].fn = "Lab_to_DIN99"
                     THEN [@ EXCEPT !.L = s[1], !.a = s[2], !.b = s[3]]
                     ELSE [@ EXCEPT !.L_99 = s[1], !.a_99 = s[2], !.b_99 = s[3]]]
    /\ UNCHANGED <<call, arg, ret, arg0, origin, plotvars>>

\* Lab_to_DIN99: e, f, G, h_ef.  DIN99_to_Lab: h_99, C_99.
PolarRef(p) ==
    /\ pc[p] = "split"
    /\ pc' = [pc EXCEPT ![p] = "polar"]
    /\ LET l == loc[p]
           e == Fwd_e_Dec(l.a, l.b)
           f == Fwd_f_Dec(l.a, l.b)
       IN  loc' = [loc EXCEPT ![p] =
                     IF call[p].fn = "Lab_to_DIN99"
                     THEN [l EXCEPT !.e = e, !.f = f, !.G = Fwd_G_Dec(e, f),
                                    !.h_ef = Fwd_h_ef_Dec(e, f)]
                     ELSE [l EXCEPT !.h_99 = Inv_h_99_Dec(l.a_99, l.b_99),
                                    !.C_99 = Inv_C_99_Dec(l.a_99, l.b_99)]]
    /\ UNCHANGED <<call, arg, ret, arg0, origin, plotvars>>

\* Lab_to_DIN99: C_99, a_99, b_99, L_99.  DIN99_to_Lab: G, e, f, a, b, L.
CompressRef(p) ==
    /\ pc[p] = "polar"
    /\ pc' = [pc EXCEPT ![p] = "computed"]
    /\ LET l == loc[p]
           k_E == call[p].k_E
           k_CH == call[p].k_CH
           C_99 == Fwd_C_99_Dec(l.G, k_E, k_CH)
           G == Inv_G_Dec(l.C_99, k_E, k_CH)
           e == Inv_e_Dec(G, l.h_99)
           f == Inv_f_Dec(G, l.h_99)
       IN  loc' = [loc EXCEPT ![p] =
                     IF call[p].fn = "Lab_to_DIN99"
                     THEN [l EXCEPT !.C_99 = C_99,
                                    !.a_99 = Fwd_a_99_Dec(C_99, l.h_ef),
                                    !.b_99 = Fwd_b_99_Dec(C_99, l.h_ef),
                                    !.L_99 = Fwd_L_99_Dec(l.L, k_E)]
                     ELSE [l EXCEPT !.G = G, !.e = e, !.f = f,
                                    !.a = Inv_a_Dec(e, f), !.b = Inv_b_Dec(e, f),
                                    !.L = Inv_L_Dec(l.L_99, k_E)]]
    /\ UNCHANGED <<call, arg, ret, arg0, origin, plotvars>>

\* return tstack([L_99, a_99, b_99]) / return tstack([L, a, b])
ReturnRef(p) ==
    /\ pc[p] = "computed"
    /\ pc' = [pc EXCEPT ![p] = "done"]
    /\ ret' = [ret EXCEPT ![p] =
                 IF call[p].fn = "Lab_to_DIN99"
                 THEN Triple_Dec(loc[p].L_99, loc[p].a_99, loc[p].b_99)
                 ELSE Triple_Dec(loc[p].L, loc[p].a, loc[p].b)]
    /\ UNCHANGED <<call, arg, loc, arg0, origin, plotvars>>

NextRef ==
    \/ \E p \in DOMAIN pc : CallRef(p)
    \/ \E p \in DOMAIN pc : CallInverse(p)
    \/ \E p \in DOMAIN pc : SplitRef(p)
    \/ \E p \in DOMAIN pc : PolarRef(p)
    \/ \E p \in DOMAIN pc : CompressRef(p)
    \/ \E p \in DOMAIN pc : ReturnRef(p)

SpecRef == InitRef /\ [][NextRef]_vars

----------------------------------------------------------------------------
(* The reference values of the doctests.                                    *)

\* x rounded to eight decimals (the ninth is the first of the fourth limb
\* after the point), halves away from zero.
DecRound8(x) ==
    LET n == DecLimbs - 3
    IN  Dec(x.neg,
            NatShift(NatMulSmall(NatDivSmall(NatDrop(NatAdd(x.mag, NatShift(<<5>>, n)), n),
                                             10), 10), n))

\* 1e-6
Dec_1e_6 == Decimal(1, 0, <<0, 1, 0, 0, 0>>)

\* Every number of the triple A is within tol of its number in B.
Within(A, B, tol) ==
    \A i \in 1..3 : DecCmp(DecAbs(DecSub(A.data[i], B.data[i])), tol) <= 0

\* A triple rounded to eight decimals.
Rounded8(A) ==
    Triple_Dec(DecRound8(A.data[1]), DecRound8(A.data[2]), DecRound8(A.data[3]))

\* Caller 1 has called fn on A with the default factors and it has returned.
ReturnedRef(fn, A) ==
    /\ pc[1] = "done"
    /\ call[1] = [fn |-> fn, k_E |-> DecOne, k_CH |-> DecOne]
    /\ arg0[1] = A

\* DIN99_to_Lab has returned for the output of Lab_to_DIN99 on the reference
\* Lab triple.
InvertedRef == ReturnedRef("DIN99_to_Lab", arg0[1]) /\ origin[1] = RefLab

\* C11, as claimed: with the default factors, Lab_to_DIN99 of
\* (37.98562910, -23.62907688, -4.41746615) returns, to the eight decimals
\* printed, (49.60101649, -16.23145729, 1.07618123), and DIN99_to_Lab of
\* that output returns the Lab triple to within 1e-6.
C11_ReferenceValue ==
    /\ ReturnedRef("Lab_to_DIN99", RefLab) => Rounded8(ret[1]) = RefDIN99_29
    /\ (ReturnedRef("DIN99_to_Lab", RefDIN99_29) \/ InvertedRef)
       => Within(ret[1], RefLab, Dec_1e_6)

\* C11, amended: with the default factors, Lab_to_DIN99 of
\* (37.98562910, -23.62907688, -4.41746615) returns, to the eight decimals
\* printed, (49.60101649, -16.23145730, 1.07618123), the triple of the
\* doctest of DIN99_to_Lab; DIN99_to_Lab of that output, of the triple of
\* the doctest and of the triple with a_99 = -16.23145729 returns the Lab
\* triple to within 1e-6.
C11_ReferenceValueOfDoctest ==
    /\ ReturnedRef("Lab_to_DIN99", RefLab) => Rounded8(ret[1]) = RefDIN99
    /\ (\/ ReturnedRef("DIN99_to_Lab", RefDIN99)
        \/ ReturnedRef("DIN99_to_Lab", RefDIN99_29)
        \/ InvertedRef)
       => Within(ret[1], RefLab, Dec_1e_6)

\* DIN99_to_Lab has returned for the output of Lab_to_DIN99 on the reference
\* Lab triple, and that output is neither reference triple exactly.
C11_Witness ==
    /\ InvertedRef
    /\ arg0[1] \notin {RefDIN99, RefDIN99_29}
    /\ Rounded8(arg0[1]) = RefDIN99

=============================================================================
